---------------------------- MODULE Spec2Model ----------------------------
(***************************************************************************)
(* Resume Analyser: the scoring core of POST /api/analyze                  *)
(* (src/app/api/analyze/route.ts).                                         *)
(*                                                                         *)
(* Text is a sequence of one-character strings, so that tokenize,          *)
(* splitJDSections and clampText work on characters as the code does.      *)
(* JavaScript numbers are modelled as exact rationals [n, d] (d > 0, in    *)
(* lowest terms); Math.round is floor(x + 1/2).                            *)
(***************************************************************************)
EXTENDS Integers, Sequences, FiniteSets, TLC

VARIABLES env, req, call, page

vars == <<env, req, call, page>>

(***************************************************************************)
(* Characters                                                              *)
(***************************************************************************)
Lower ==
  <<"a","b","c","d","e","f","g","h","i","j","k","l","m",
    "n","o","p","q","r","s","t","u","v","w","x","y","z">>

Upper ==
  <<"A","B","C","D","E","F","G","H","I","J","K","L","M",
    "N","O","P","Q","R","S","T","U","V","W","X","Y","Z">>

DigitChars == <<"0","1","2","3","4","5","6","7","8","9">>

Range(s) == {s[i] : i \in DOMAIN s}

LowerSet == Range(Lower)

UpperSet == Range(Upper)

DigitSet == Range(DigitChars)

\* \s of a JavaScript regular expression, and what String.trim removes
Whitespace == {" ", "\n", "\t", "\r"}

\* \w of a JavaScript regular expression
IsWordChar(c) == c \in LowerSet \cup UpperSet \cup DigitSet \cup {"_"}

IndexOf(s, c) == CHOOSE i \in DOMAIN s : s[i] = c

ToLowerChar(c) == IF c \in UpperSet THEN Lower[IndexOf(Upper, c)] ELSE c

toLowerCase(s) == [i \in DOMAIN s |-> ToLowerChar(s[i])]

\* s.slice(from - 1, to) in 1-based inclusive positions
Slice(s, from, to) == IF to < from THEN <<>> ELSE SubSeq(s, from, to)

\* the literal pat (lower case) occurs in s at position i, letter case ignored
MatchesAt(s, pat, i) ==
  /\ i >= 1
  /\ i + Len(pat) - 1 <= Len(s)
  /\ \A k \in 1..Len(pat) : ToLowerChar(s[i + k - 1]) = pat[k]

\* the least element of a non-empty set of positions
Least(S) == CHOOSE i \in S : \A j \in S : i <= j

\* the positions from i on at which pat occurs in s
MatchesFrom(s, pat, i) == {j \in i..Len(s) : MatchesAt(s, pat, j)}

\* s from position i on, every occurrence of pat replaced from left to right
RECURSIVE ReplaceFrom(_, _, _, _)
ReplaceFrom(s, pat, rep, i) ==
  LET found == MatchesFrom(s, pat, i)
  IN  IF found = {} THEN Slice(s, i, Len(s))
      ELSE Slice(s, i, Least(found) - 1) \o rep
             \o ReplaceFrom(s, pat, rep, Least(found) + Len(pat))

\* String.replace(/pat/gi, rep) for a literal pattern
ReplaceAll(s, pat, rep) == ReplaceFrom(s, pat, rep, 1)

\* String.trim
Trim(s) ==
  IF \A i \in DOMAIN s : s[i] \in Whitespace THEN <<>>
  ELSE Slice(s, Least({i \in DOMAIN s : s[i] \notin Whitespace}),
                Least({i \in DOMAIN s : \A j \in (i + 1)..Len(s) : s[j] \in Whitespace}))

\* String.split(/sep+/): the pieces between maximal runs of separators;
\* a leading or trailing run leaves an empty piece, as in JavaScript.
\* isSep[i] tells whether s[i] is a separator; a piece starts at i.
RECURSIVE SplitFrom(_, _, _)
SplitFrom(s, isSep, i) ==
  LET seps == {j \in i..Len(s) : isSep[j]}
  IN  IF seps = {} THEN <<Slice(s, i, Len(s))>>
      ELSE <<Slice(s, i, Least(seps) - 1)>>
             \o SplitFrom(s, isSep,
                   Least({k \in (Least(seps) + 1)..(Len(s) + 1) :
                            k <= Len(s) => ~isSep[k]}))

SplitOn(s, isSep) == SplitFrom(s, isSep, 1)

\* Array.prototype.filter on seq[lo..hi]; keep[i] tells whether seq[i]
\* passes the test
RECURSIVE FilterRange(_, _, _, _)
FilterRange(seq, keep, lo, hi) ==
  IF lo > hi THEN <<>>
  ELSE IF lo = hi THEN (IF keep[lo] THEN <<seq[lo]>> ELSE <<>>)
  ELSE FilterRange(seq, keep, lo, (lo + hi) \div 2)
         \o FilterRange(seq, keep, (lo + hi) \div 2 + 1, hi)

Filter(seq, keep) == FilterRange(seq, keep, 1, Len(seq))

\* Array.join
RECURSIVE Join(_, _)
Join(parts, sep) ==
  IF parts = <<>> THEN <<>>
  ELSE IF Len(parts) = 1 THEN parts[1]
  ELSE parts[1] \o sep \o Join(Tail(parts), sep)

(***************************************************************************)
(* Numbers                                                                 *)
(***************************************************************************)
Abs(x) == IF x < 0 THEN -x ELSE x

Min(a, b) == IF a <= b THEN a ELSE b

Max(a, b) == IF a >= b THEN a ELSE b

RECURSIVE Gcd(_, _)
Gcd(a, b) == IF b = 0 THEN a ELSE Gcd(b, a % b)

\* the rational n/d in lowest terms with a positive denominator
Rat(n, d) ==
  LET g == Gcd(Abs(n), Abs(d))
      s == IF d < 0 THEN -1 ELSE 1
  IN  [n |-> (s * n) \div g, d |-> (s * d) \div g]

Int2Rat(k) == [n |-> k, d |-> 1]

RatAdd(x, y) == Rat(x.n * y.d + y.n * x.d, x.d * y.d)

RatMul(x, y) == Rat(x.n * y.n, x.d * y.d)

RatDiv(x, y) == Rat(x.n * y.d, x.d * y.n)

RatLess(x, y) == x.n * y.d < y.n * x.d

\* Math.round: the nearest integer, halves rounded towards +infinity
MathRound(x) == (2 * x.n + x.d) \div (2 * x.d)

(***************************************************************************)
(* Tokenizer                                                               *)
(***************************************************************************)
STOPWORDS == {
  <<"t","h","e">>,
  <<"a","n","d">>,
  <<"f","o","r">>,
  <<"w","i","t","h">>,
  <<"t","h","a","t">>,
  <<"t","h","i","s">>,
  <<"f","r","o","m">>,
  <<"y","o","u","r">>,
  <<"y","o","u">>,
  <<"o","u","r">>,
  <<"a","r","e">>,
  <<"w","i","l","l">>,
  <<"c","a","n">>,
  <<"a","b","l","e">>,
  <<"a","b","i","l","i","t","y">>,
  <<"w","o","r","k">>,
  <<"w","o","r","k","s">>,
  <<"w","o","r","k","i","n","g">>,
  <<"r","o","l","e">>,
  <<"r","e","s","p","o","n","s","i","b","l","e">>,
  <<"r","e","s","p","o","n","s","i","b","i","l","i","t","i","e","s">>,
  <<"r","e","q","u","i","r","e","m","e","n","t","s">>,
  <<"q","u","a","l","i","f","i","c","a","t","i","o","n">>,
  <<"q","u","a","l","i","f","i","c","a","t","i","o","n","s">>,
  <<"s","k","i","l","l","s">>,
  <<"s","k","i","l","l">>,
  <<"y","e","a","r","s">>,
  <<"y","e","a","r">>,
  <<"e","x","p","e","r","i","e","n","c","e">>,
  <<"i","n","c","l","u","d","i","n","g">>,
  <<"s","t","r","o","n","g">>,
  <<"g","o","o","d">>,
  <<"g","r","e","a","t">>,
  <<"e","x","c","e","l","l","e","n","t">>,
  <<"k","n","o","w","l","e","d","g","e">>,
  <<"u","n","d","e","r","s","t","a","n","d","i","n","g">>,
  <<"p","r","o","f","i","c","i","e","n","t">>,
  <<"p","r","e","f","e","r","r","e","d">>,
  <<"p","l","u","s">>,
  <<"b","o","n","u","s">>,
  <<"d","a","y">>,
  <<"t","e","a","m">>,
  <<"t","e","a","m","s">>,
  <<"c","o","l","l","a","b","o","r","a","t","e">>,
  <<"c","o","l","l","a","b","o","r","a","t","i","o","n">>,
  <<"d","e","v","e","l","o","p">>,
  <<"d","e","s","i","g","n">>,
  <<"b","u","i","l","d">>,
  <<"b","u","i","l","d","i","n","g">>,
  <<"d","e","l","i","v","e","r">>,
  <<"d","e","l","i","v","e","r","y">>,
  <<"e","n","s","u","r","e">>,
  <<"u","s","i","n","g">>,
  <<"u","s","e">>,
  <<"u","s","e","d">>,
  <<"w","i","t","h","i","n">>,
  <<"a","c","r","o","s","s">>,
  <<"m","u","l","t","i","p","l","e">>,
  <<"a","b","i","l","i","t","y">>,
  <<"s","e","l","f">>,
  <<"s","t","a","r","t","e","r">>,
  <<"m","u","s","t">>,
  <<"n","i","c","e">>
}

normalizeTech(text) ==
  LET r1 == ReplaceAll(text, <<"c","+","+">>, <<"c","p","l","u","s","p","l","u","s">>)
      r2 == ReplaceAll(r1, <<"c","#">>, <<"c","s","h","a","r","p">>)
      r3 == ReplaceAll(r2, <<".","n","e","t">>, <<"d","o","t","n","e","t">>)
      r4 == ReplaceAll(r3, <<"n","o","d","e",".","j","s">>, <<"n","o","d","e","j","s">>)
  IN  ReplaceAll(r4, <<"r","e","a","c","t",".","j","s">>, <<"r","e","a","c","t">>)

\* [^a-z0-9]
IsTokenSeparator(c) == c \notin LowerSet \cup DigitSet

IsSignificant(word) == Len(word) > 2 /\ word \notin STOPWORDS

\* the split and the filter of tokenize, on the lower-cased text
tokensOf(lowered) ==
  SelectSeq(SplitOn(lowered, [i \in DOMAIN lowered |-> IsTokenSeparator(lowered[i])]),
            IsSignificant)

\* tokenize without the folding of normalizeTech
tokenize_NoFolding(text) == tokensOf(toLowerCase(text))

tokenize(text) == tokensOf(toLowerCase(normalizeTech(text)))

\* new Set(tokenize(text))
TokenSet(text) == Range(tokenize(text))

(***************************************************************************)
(* JD segmenter                                                            *)
(***************************************************************************)
\* the alternatives of reqPattern, respPattern and prefPattern
reqPattern == {
  <<"r","e","q","u","i","r","e","m","e","n","t","s">>,
  <<"q","u","a","l","i","f","i","c","a","t","i","o","n","s">>,
  <<"m","u","s","t"," ","h","a","v","e">>,
  <<"w","h","a","t"," ","y","o","u"," ","b","r","i","n","g">>,
  <<"s","k","i","l","l","s">>
}

respPattern == {
  <<"r","e","s","p","o","n","s","i","b","i","l","i","t","i","e","s">>,
  <<"w","h","a","t"," ","y","o","u","'","l","l"," ","d","o">>,
  <<"w","h","a","t"," ","y","o","u"," ","w","i","l","l"," ","d","o">>,
  <<"r","o","l","e">>,
  <<"d","a","y","-","t","o","-","d","a","y">>,
  <<"d","a","y","-","t","o"," ","d","a","y">>,
  <<"d","a","y"," ","t","o","-","d","a","y">>,
  <<"d","a","y"," ","t","o"," ","d","a","y">>
}

prefPattern == {
  <<"n","i","c","e"," ","t","o"," ","h","a","v","e">>,
  <<"p","r","e","f","e","r","r","e","d">>,
  <<"b","o","n","u","s">>,
  <<"p","l","u","s">>,
  <<"g","o","o","d"," ","t","o"," ","h","a","v","e">>
}

\* \b at the boundary before position i of s (1 .. Len(s) + 1)
WordBoundary(s, i) ==
  LET before == i > 1 /\ IsWordChar(s[i - 1])
      after  == i <= Len(s) /\ IsWordChar(s[i])
  IN  before # after

\* PatternTest asking for a line that is the keyword alone
PatternTest_WholeLine(pattern, s) == toLowerCase(s) \in pattern

\* /\b(alt1|alt2|...)\b/i.test(s)
PatternTest(pattern, s) ==
  \E alt \in pattern : \E i \in 1..Len(s) :
    /\ MatchesAt(s, alt, i)
    /\ WordBoundary(s, i)
    /\ WordBoundary(s, i + Len(alt))

SectionNames == {"requirements", "responsibilities", "preferred", "other"}

\* Object.entries order of the breakdown
SectionOrder == <<"requirements", "responsibilities", "preferred", "other">>

IsNewline(c) == c = "\n"

\* HeadingOf testing the patterns in the reverse order
HeadingOf_PreferredFirst(trimmed) ==
  IF PatternTest(prefPattern, trimmed) THEN "preferred"
  ELSE IF PatternTest(respPattern, trimmed) THEN "responsibilities"
  ELSE IF PatternTest(reqPattern, trimmed) THEN "requirements"
  ELSE "none"

\* the heading a trimmed line is recognised as, "none" when it is content
HeadingOf(trimmed) ==
  IF PatternTest(reqPattern, trimmed) THEN "requirements"
  ELSE IF PatternTest(respPattern, trimmed) THEN "responsibilities"
  ELSE IF PatternTest(prefPattern, trimmed) THEN "preferred"
  ELSE "none"

RECURSIVE SplitLoop(_, _, _, _)
SplitLoop(lines, i, current, sections) ==
  IF i > Len(lines) THEN sections
  ELSE LET trimmed == Trim(lines[i])
           heading == HeadingOf(trimmed)
       IN  IF trimmed = <<>> THEN SplitLoop(lines, i + 1, current, sections)
           ELSE IF heading # "none"
                THEN SplitLoop(lines, i + 1, heading, sections)
                ELSE SplitLoop(lines, i + 1, current,
                       [sections EXCEPT ![current] = @ \o <<" ">> \o trimmed])

\* splitJDSections with the cursor starting at requirements
splitJDSections_StartsAtRequirements(jdText) ==
  SplitLoop(SplitOn(jdText, [i \in DOMAIN jdText |-> IsNewline(jdText[i])]), 1,
            "requirements", [name \in SectionNames |-> <<>>])

splitJDSections(jdText) ==
  SplitLoop(SplitOn(jdText, [i \in DOMAIN jdText |-> IsNewline(jdText[i])]), 1, "other",
            [name \in SectionNames |-> <<>>])

(***************************************************************************)
(* Coverage scorer and match score aggregator                              *)
(***************************************************************************)
\* the score part of a deduplicated token set of which matched are in the resume
\* ScorePart with the share of the tokens that are missing as its ratio
ScorePart_MissingShare(matched, total) ==
  IF total = 0
  THEN [matched |-> 0, total |-> 0, ratio |-> Int2Rat(0)]
  ELSE [matched |-> matched, total |-> total, ratio |-> Rat(total - matched, total)]

ScorePart(matched, total) ==
  IF total = 0
  THEN [matched |-> 0, total |-> 0, ratio |-> Int2Rat(0)]
  ELSE [matched |-> matched, total |-> total, ratio |-> Rat(matched, total)]

\* coverageOf counting the tokens the resume lacks
coverageOf_CountMissing(tokens, cvTokens) ==
  ScorePart(Cardinality(tokens \ cvTokens), Cardinality(tokens))

\* lines 292-300 on the deduplicated tokens of the section
coverageOf(tokens, cvTokens) ==
  ScorePart(Cardinality(tokens \cap cvTokens), Cardinality(tokens))

\* coverageScore counting every occurrence of a token
coverageScore_CountsRepeats(sectionText, cvTokens) ==
  LET tokens == tokenize(sectionText)
  IN  ScorePart(Len(Filter(tokens, [i \in DOMAIN tokens |-> tokens[i] \in cvTokens])),
                Len(tokens))

coverageScore(sectionText, cvTokens) ==
  coverageOf(TokenSet(sectionText), cvTokens)

\* the base weights 0.6, 0.25, 0.15, 0.1
weights ==
  [requirements |-> Rat(60, 100), responsibilities |-> Rat(25, 100),
   preferred |-> Rat(15, 100), other |-> Rat(10, 100)]

WithWeight(part, w) ==
  [matched |-> part.matched, total |-> part.total, ratio |-> part.ratio,
   weight |-> w]

ZeroPart == WithWeight([matched |-> 0, total |-> 0, ratio |-> Int2Rat(0)], Int2Rat(0))

\* the breakdown computeMatchScore builds before it looks for active parts
sectionBreakdown(cvText, jdText) ==
  LET cvTokens == TokenSet(cvText)
      sections == splitJDSections(jdText)
  IN  [requirements |->
         WithWeight(coverageScore(sections.requirements, cvTokens), weights.requirements),
       responsibilities |->
         WithWeight(coverageScore(sections.responsibilities, cvTokens), weights.responsibilities),
       preferred |->
         WithWeight(coverageScore(sections.preferred, cvTokens), weights.preferred),
       other |->
         WithWeight(coverageScore(sections.other, cvTokens), weights.other)]

\* activeParts without the total > 0 filter
activeParts_Unfiltered(breakdown) == SectionOrder

\* the names of the entries of breakdown with total > 0, in entry order
activeParts(breakdown) ==
  Filter(SectionOrder,
         [i \in DOMAIN SectionOrder |-> breakdown[SectionOrder[i]].total > 0])

RECURSIVE SumOver(_, _)
SumOver(names, f) ==
  IF names = <<>> THEN Int2Rat(0)
  ELSE RatAdd(f[Head(names)], SumOver(Tail(names), f))

\* weightSum over all four parts, active or not
weightSum_AllParts(breakdown) ==
  SumOver(SectionOrder, [name \in SectionNames |-> breakdown[name].weight])

weightSum(breakdown) ==
  SumOver(activeParts(breakdown), [name \in SectionNames |-> breakdown[name].weight])

\* adjustedWeight without the division by weightSum
adjustedWeight_NotRenormalised(breakdown, name) == breakdown[name].weight

adjustedWeight(breakdown, name) ==
  IF RatLess(Int2Rat(0), weightSum(breakdown))
  THEN RatDiv(breakdown[name].weight, weightSum(breakdown))
  ELSE Int2Rat(0)

weightedScore(breakdown) ==
  SumOver(activeParts(breakdown),
          [name \in SectionNames |->
             RatMul(breakdown[name].ratio, adjustedWeight(breakdown, name))])

\* aggregateScore without the whole-JD fallback
aggregateScore_NoFallback(breakdown, fallback) ==
  [score |-> MathRound(RatMul(weightedScore(breakdown), Int2Rat(100))),
   breakdown |-> breakdown]

\* lines 326-352: the result for the sectioned breakdown, or for the
\* whole-JD fallback when no part is active
aggregateScore(breakdown, fallback) ==
  IF Len(activeParts(breakdown)) = 0
  THEN [score |-> MathRound(RatMul(fallback.ratio, Int2Rat(100))),
        breakdown |->
          [requirements |-> WithWeight(fallback, Int2Rat(1)),
           responsibilities |-> ZeroPart,
           preferred |-> ZeroPart,
           other |-> ZeroPart]]
  ELSE [score |-> MathRound(RatMul(weightedScore(breakdown), Int2Rat(100))),
        breakdown |-> breakdown]

computeMatchScore(cvText, jdText) ==
  aggregateScore(sectionBreakdown(cvText, jdText),
                 coverageScore(jdText, TokenSet(cvText)))

(***************************************************************************)
(* JavaScript values.  A number is a rational [n, d]; every other value    *)
(* is a record of its own shape, so that any two values can be compared.   *)
(***************************************************************************)
Null == [null |-> TRUE]

Undefined == [undefined |-> TRUE]

NaN == [nan |-> TRUE]

Str(chars) == [str |-> chars]

Arr(items) == [arr |-> items]

IsNumber(v) == DOMAIN v = {"n", "d"}

\* typeof v === "number"
TypeofNumber(v) == IsNumber(v) \/ v = NaN

RatSub(x, y) == Rat(x.n * y.d - y.n * x.d, x.d * y.d)

RatMin(x, y) == IF RatLess(y, x) THEN y ELSE x

RatMax(x, y) == IF RatLess(x, y) THEN y ELSE x

DigitValue(c) == IndexOf(DigitChars, c) - 1

RECURSIVE DigitsValue(_)
DigitsValue(digits) ==
  IF digits = <<>> THEN 0
  ELSE 10 * DigitsValue(SubSeq(digits, 1, Len(digits) - 1))
       + DigitValue(digits[Len(digits)])

RECURSIVE Pow10(_)
Pow10(k) == IF k = 0 THEN 1 ELSE 10 * Pow10(k - 1)

\* Number(text) for decimal literals: surrounding white space is ignored,
\* the empty string is 0, an optional sign, digits with at most one point
\* the value of an unsigned decimal literal, NaN when it is not one
DecimalOf(body) ==
  LET dots == Cardinality({i \in DOMAIN body : body[i] = "."})
      fractionLen ==
        IF dots = 1
        THEN Len(body) - (CHOOSE i \in DOMAIN body : body[i] = ".")
        ELSE 0
  IN  IF \/ \E i \in DOMAIN body : body[i] \notin DigitSet \cup {"."}
         \/ dots > 1
         \/ dots = Len(body)
      THEN NaN
      ELSE Rat(DigitsValue(SelectSeq(body, LAMBDA c : c \in DigitSet)),
               Pow10(fractionLen))

Negated(v) == IF IsNumber(v) THEN [n |-> -v.n, d |-> v.d] ELSE v

SignedDecimalOf(t) ==
  IF t = <<>> THEN Int2Rat(0)
  ELSE IF Head(t) = "-" THEN Negated(DecimalOf(Tail(t)))
  ELSE IF Head(t) = "+" THEN DecimalOf(Tail(t))
  ELSE DecimalOf(t)

NumberOf(text) == SignedDecimalOf(Trim(text))

(***************************************************************************)
(* Overall score combiner                                                  *)
(***************************************************************************)
\* normalizeWeight letting the weight 1 through
normalizeWeight_AcceptsOne(value, fallback) ==
  IF \/ ~IsNumber(value)
     \/ ~RatLess(Int2Rat(0), value)
     \/ RatLess(Int2Rat(1), value)
  THEN fallback
  ELSE value

normalizeWeight(value, fallback) ==
  IF \/ ~IsNumber(value)
     \/ ~RatLess(Int2Rat(0), value)
     \/ ~RatLess(value, Int2Rat(1))
  THEN fallback
  ELSE value

DefaultSkillWeight == <<"0", ".", "8">>

\* normalizeWeight(Number(process.env.SKILL_WEIGHT ?? "0.8"), 0.8)
skillWeight(environment) ==
  normalizeWeight(
    NumberOf(IF environment.SKILL_WEIGHT = Undefined
             THEN DefaultSkillWeight
             ELSE environment.SKILL_WEIGHT.str),
    Rat(8, 10))

\* v coerced to a number by a multiplication
ToNumber(v) == IF IsNumber(v) THEN v ELSE NaN

\* blend with the two weights exchanged
blend_WeightsExchanged(matchScore, compensationFit, w) ==
  IF matchScore = NaN \/ ToNumber(compensationFit) = NaN
  THEN NaN
  ELSE Int2Rat(MathRound(RatAdd(RatMul(compensationFit, w),
                                RatMul(matchScore, RatSub(Int2Rat(1), w)))))

\* Math.round(matchScore * skillWeight + compensationFit * compWeight)
blend(matchScore, compensationFit, w) ==
  IF matchScore = NaN \/ ToNumber(compensationFit) = NaN
  THEN NaN
  ELSE Int2Rat(MathRound(RatAdd(RatMul(matchScore, w),
                                RatMul(compensationFit, RatSub(Int2Rat(1), w)))))

computeOverallScore(matchScore, compensationFit, environment) ==
  IF ~TypeofNumber(matchScore) THEN Null
  ELSE IF compensationFit = Null \/ compensationFit = Undefined THEN matchScore
  ELSE blend(matchScore, compensationFit, skillWeight(environment))

(***************************************************************************)
(* Compensation fit scorer                                                 *)
(***************************************************************************)
IsSalaryChar(c) == c \in DigitSet \cup {"."}

\* input is a form field: Null when the field is absent, else Str(chars)
\* Number(raw) when it is finite, else null
finiteOrNull(value) == IF IsNumber(value) THEN value ELSE Null

parseSalary(input) ==
  IF input = Null \/ input.str = <<>> THEN Null
  ELSE IF SelectSeq(input.str, IsSalaryChar) = <<>> THEN Null
  ELSE finiteOrNull(NumberOf(SelectSeq(input.str, IsSalaryChar)))

\* normalizeRange returning the bounds in the order given
normalizeRange_AsGiven(min, max) ==
  IF min = Null /\ max = Null THEN Null
  ELSE [min |-> IF min # Null THEN min ELSE max,
        max |-> IF max # Null THEN max ELSE min]

normalizeRange(min, max) ==
  IF min = Null /\ max = Null THEN Null
  ELSE LET minValue == IF min # Null THEN min ELSE max
           maxValue == IF max # Null THEN max ELSE min
       IN  [min |-> RatMin(minValue, maxValue),
            max |-> RatMax(minValue, maxValue)]

NoteMissing == "Compensation info missing for one or both inputs."

NoteOverlap == "Salary expectations overlap with the JD range."

NoteNoOverlap == "Salary expectations do not overlap with the JD range."

NoteAbove == "Candidate expectations sit above the role's stated range."

NoteBelow == "Candidate expectations sit below the role's stated range."

\* span and overlap as computeCompensationFit computes them
compSpan(role) == RatMax(Int2Rat(1), RatSub(role.max, role.min))

compOverlap(candidate, role) ==
  RatMax(Int2Rat(0),
         RatSub(RatMin(candidate.max, role.max), RatMax(candidate.min, role.min)))

compGap(candidate, role) ==
  IF RatLess(role.max, candidate.min)
  THEN RatSub(candidate.min, role.max)
  ELSE RatSub(role.min, candidate.max)

\* compRawScore dividing the overlap by the candidate's span
compRawScore_CandidateSpan(candidate, role) ==
  LET span == compSpan(candidate)
      overlap == compOverlap(candidate, role)
  IN  IF RatLess(Int2Rat(0), overlap)
      THEN MathRound(RatMul(RatDiv(overlap, span), Int2Rat(100)))
      ELSE Max(0, MathRound(RatSub(Int2Rat(100),
                 RatMul(RatDiv(compGap(candidate, role), span), Int2Rat(100)))))

\* the score before the final clamp
compRawScore(candidate, role) ==
  LET span == compSpan(role)
      overlap == compOverlap(candidate, role)
  IN  IF RatLess(Int2Rat(0), overlap)
      THEN MathRound(RatMul(RatDiv(overlap, span), Int2Rat(100)))
      ELSE Max(0, MathRound(RatSub(Int2Rat(100),
                 RatMul(RatDiv(compGap(candidate, role), span), Int2Rat(100)))))

\* computeCompensationFit noting "above" when the candidate's upper bound
\* exceeds the role's
computeCompensationFit_AboveByMax(candidate, role) ==
  IF candidate = Null \/ role = Null
  THEN [score |-> Null, notes |-> <<NoteMissing>>]
  ELSE [score |-> Int2Rat(Max(0, Min(100, compRawScore(candidate, role)))),
        notes |->
          <<IF RatLess(Int2Rat(0), compOverlap(candidate, role))
            THEN NoteOverlap ELSE NoteNoOverlap>>
          \o (IF RatLess(role.max, candidate.max) THEN <<NoteAbove>> ELSE <<>>)
          \o (IF RatLess(candidate.max, role.min) THEN <<NoteBelow>> ELSE <<>>)]

\* computeCompensationFit without Math.round on the overlap score
computeCompensationFit_Unrounded(candidate, role) ==
  IF candidate = Null \/ role = Null
  THEN [score |-> Null, notes |-> <<NoteMissing>>]
  ELSE [score |->
          IF RatLess(Int2Rat(0), compOverlap(candidate, role))
          THEN RatMax(Int2Rat(0), RatMin(Int2Rat(100),
                 RatMul(RatDiv(compOverlap(candidate, role), compSpan(role)),
                        Int2Rat(100))))
          ELSE Int2Rat(Max(0, Min(100, compRawScore(candidate, role)))),
        notes |->
          <<IF RatLess(Int2Rat(0), compOverlap(candidate, role))
            THEN NoteOverlap ELSE NoteNoOverlap>>
          \o (IF RatLess(role.max, candidate.min) THEN <<NoteAbove>> ELSE <<>>)
          \o (IF RatLess(candidate.max, role.min) THEN <<NoteBelow>> ELSE <<>>)]

computeCompensationFit(candidate, role) ==
  IF candidate = Null \/ role = Null
  THEN [score |-> Null, notes |-> <<NoteMissing>>]
  ELSE [score |-> Int2Rat(Max(0, Min(100, compRawScore(candidate, role)))),
        notes |->
          <<IF RatLess(Int2Rat(0), compOverlap(candidate, role))
            THEN NoteOverlap ELSE NoteNoOverlap>>
          \o (IF RatLess(role.max, candidate.min) THEN <<NoteAbove>> ELSE <<>>)
          \o (IF RatLess(candidate.max, role.min) THEN <<NoteBelow>> ELSE <<>>)]

(***************************************************************************)
(* Text intake                                                             *)
(***************************************************************************)
MAX_FILE_MB == 6

MAX_CHARS == 12000

\* input.replace(/\s+/g, " "): a run of whitespace leaves one space
CollapseWhitespace(s) ==
  Filter([i \in DOMAIN s |-> IF s[i] \in Whitespace THEN " " ELSE s[i]],
         [i \in DOMAIN s |-> s[i] \in Whitespace => (i = 1 \/ s[i - 1] \notin Whitespace)])

clampText(input) ==
  LET trimmed == Trim(CollapseWhitespace(input))
  IN  IF Len(trimmed) <= MAX_CHARS THEN trimmed
      ELSE SubSeq(trimmed, 1, MAX_CHARS) \o <<".", ".", ".">>

getExtension(name) ==
  LET dots == {i \in DOMAIN name : name[i] = "."}
      last == CHOOSE i \in dots : \A j \in dots : j <= i
  IN  IF dots = {} THEN <<>>
      ELSE toLowerCase(Slice(name, last + 1, Len(name)))

StartsWith(s, prefix) ==
  Len(s) >= Len(prefix) /\ SubSeq(s, 1, Len(prefix)) = prefix

PdfType == <<"a","p","p","l","i","c","a","t","i","o","n","/","p","d","f">>

DocxType ==
  <<"a","p","p","l","i","c","a","t","i","o","n","/","v","n","d",".","o","p","e","n","x","m","l","f","o","r","m","a","t","s","-","o","f","f","i","c","e","d","o","c","u","m","e","n","t",".","w","o","r","d","p","r","o","c","e","s","s","i","n","g","m","l",".","d","o","c","u","m","e","n","t">>

ErrTooLarge == "File too large. Max 6MB."

ErrUnsupported == "Unsupported file type. Use PDF, DOCX, or TXT."

\* a file is [size, name, type, text]: text is what its bytes decode to, or
\* what pdf-parse / mammoth extract from them
extractTextFromFile(file) ==
  LET ext == getExtension(file.name)
  IN  IF file.size > MAX_FILE_MB * 1024 * 1024
      THEN [ok |-> FALSE, error |-> ErrTooLarge]
      ELSE IF file.type = PdfType \/ ext = <<"p","d","f">>
           THEN [ok |-> TRUE, text |-> file.text]
      ELSE IF file.type = DocxType \/ ext = <<"d","o","c","x">>
           THEN [ok |-> TRUE, text |-> file.text]
      ELSE IF StartsWith(file.type, <<"t","e","x","t","/">>) \/ ext = <<"t","x","t">>
           THEN [ok |-> TRUE, text |-> file.text]
      ELSE [ok |-> FALSE, error |-> ErrUnsupported]

(***************************************************************************)
(* Keyword statistics                                                      *)
(***************************************************************************)
\* the keys of the frequency map, in first-use order
Distinct(seq) ==
  Filter(seq, [i \in DOMAIN seq |-> \A j \in 1..(i - 1) : seq[j] # seq[i]])

Count(seq, x) == Cardinality({i \in DOMAIN seq : seq[i] = x})

\* SortsBefore breaking ties by ascending length
SortsBefore_ShorterFirst(jdTokens, a, b) ==
  \/ Count(jdTokens, a) > Count(jdTokens, b)
  \/ Count(jdTokens, a) = Count(jdTokens, b) /\ Len(a) < Len(b)

\* the comparator of extractKeywordStats puts a before b
SortsBefore(jdTokens, a, b) ==
  \/ Count(jdTokens, a) > Count(jdTokens, b)
  \/ Count(jdTokens, a) = Count(jdTokens, b) /\ Len(a) > Len(b)

\* x inserted behind every element that does not sort after it
InsertSorted(jdTokens, sorted, x) ==
  LET at == IF \E i \in DOMAIN sorted : SortsBefore(jdTokens, x, sorted[i])
            THEN (CHOOSE i \in DOMAIN sorted :
                    /\ SortsBefore(jdTokens, x, sorted[i])
                    /\ \A j \in 1..(i - 1) : ~SortsBefore(jdTokens, x, sorted[j])) - 1
            ELSE Len(sorted)
  IN  SubSeq(sorted, 1, at) \o <<x>> \o SubSeq(sorted, at + 1, Len(sorted))

\* Array.sort (stable) of the frequency map's entries, entries in first-use order
RECURSIVE SortTokens(_, _)
SortTokens(jdTokens, entries) ==
  IF entries = <<>> THEN <<>>
  ELSE InsertSorted(jdTokens,
                    SortTokens(jdTokens, SubSeq(entries, 1, Len(entries) - 1)),
                    entries[Len(entries)])

KeywordLimit == 30

FirstN(seq, k) == Slice(seq, 1, Min(k, Len(seq)))

\* lines 368-382: the sorted tokens split by presence in the resume
splitKeywords(sortedTokens, cvTokens) ==
  [keywordMatches |->
     FirstN(Filter(sortedTokens,
                   [i \in DOMAIN sortedTokens |-> sortedTokens[i] \in cvTokens]),
            KeywordLimit),
   missingKeywords |->
     FirstN(Filter(sortedTokens,
                   [i \in DOMAIN sortedTokens |-> sortedTokens[i] \notin cvTokens]),
            KeywordLimit)]

sortedKeywords(jdTokens) == SortTokens(jdTokens, Distinct(jdTokens))

extractKeywordStats(jdText, cvText) ==
  splitKeywords(sortedKeywords(tokenize(jdText)), TokenSet(cvText))

(***************************************************************************)
(* Analysis objects.  An analysis is [kind, items, fields]: a JSON object  *)
(* has kind "object"; a JSON array has kind "array", and the properties    *)
(* the handler assigns to it are kept in fields beside its items.  A field *)
(* that is not set is Undefined.                                           *)
(***************************************************************************)
FieldNames ==
  {"matchScore", "scoreBreakdown", "summary", "gapAnalysis", "improvements",
   "keywordMatches", "missingKeywords", "bulletRewrites", "atsNotes",
   "compensationFit", "compensationNotes", "overallScore", "raw"}

NoFields == [f \in FieldNames |-> Undefined]

Object(fields) == [kind |-> "object", items |-> <<>>, fields |-> fields]

Array(items) == [kind |-> "array", items |-> items, fields |-> NoFields]

IsAnalysisObject(v) == DOMAIN v = {"kind", "items", "fields"}

\* Array.isArray
IsArray(v) == DOMAIN v = {"arr"}

Text(s) == [text |-> s]

Breakdown(b) == [breakdown |-> b]

MissingKeywordPrefix == <<"M","i","s","s","i","n","g"," ","k","e","y","w","o","r","d",":"," ">>

GapLimit == 10

gapAnalysisOf(missing) ==
  Arr([i \in DOMAIN missing |-> Str(MissingKeywordPrefix \o missing[i])])

\* heuristicFields listing a gap for every missing keyword
heuristicFields_UncutGaps(match, keywords) ==
  Object([NoFields EXCEPT
    !.matchScore = Int2Rat(match.score),
    !.scoreBreakdown = Breakdown(match.breakdown),
    !.summary = Text("Heuristic analysis (no LLM key found). Configure GROQ_API_KEY for deeper insights."),
    !.gapAnalysis = gapAnalysisOf(keywords.missingKeywords),
    !.improvements =
       Arr(<<Text("Add missing role-specific keywords from the job description."),
             Text("Quantify impact in bullet points (metrics, outcomes, scale)."),
             Text("Align your summary with the role's core responsibilities.")>>),
    !.keywordMatches = Arr(keywords.keywordMatches),
    !.missingKeywords = Arr(keywords.missingKeywords),
    !.bulletRewrites = Arr(<<>>),
    !.atsNotes =
       Arr(<<Text("Use standard section headings (Experience, Skills, Education)."),
             Text("Avoid tables or complex formatting in the resume file.")>>)])

heuristicFields(match, keywords) ==
  Object([NoFields EXCEPT
    !.matchScore = Int2Rat(match.score),
    !.scoreBreakdown = Breakdown(match.breakdown),
    !.summary = Text("Heuristic analysis (no LLM key found). Configure GROQ_API_KEY for deeper insights."),
    !.gapAnalysis = gapAnalysisOf(FirstN(keywords.missingKeywords, GapLimit)),
    !.improvements =
       Arr(<<Text("Add missing role-specific keywords from the job description."),
             Text("Quantify impact in bullet points (metrics, outcomes, scale)."),
             Text("Align your summary with the role's core responsibilities.")>>),
    !.keywordMatches = Arr(keywords.keywordMatches),
    !.missingKeywords = Arr(keywords.missingKeywords),
    !.bulletRewrites = Arr(<<>>),
    !.atsNotes =
       Arr(<<Text("Use standard section headings (Experience, Skills, Education)."),
             Text("Avoid tables or complex formatting in the resume file.")>>)])

heuristicAnalysis(cvText, jdText) ==
  heuristicFields(computeMatchScore(cvText, jdText),
                  extractKeywordStats(jdText, cvText))

\* the object analyzeWithLLM returns when the reply does not parse
UnparsedAnalysis(text) ==
  Object([NoFields EXCEPT
    !.matchScore = Int2Rat(0),
    !.summary = Text("Unable to parse LLM response. See raw output."),
    !.gapAnalysis = Arr(<<>>),
    !.improvements = Arr(<<>>),
    !.keywordMatches = Arr(<<>>),
    !.missingKeywords = Arr(<<>>),
    !.bulletRewrites = Arr(<<>>),
    !.atsNotes = Arr(<<>>),
    !.raw = text])

\* the content of an LLM reply is [json |-> v] when the text is the JSON
\* text of the value v (possibly wrapped in prose around its braces), and
\* NotJson when JSON.parse rejects it both times
NotJson == [notJson |-> TRUE]

safeJsonParse(text) == IF text = NotJson THEN Null ELSE text.json

\* the value is truthy
Truthy(v) ==
  /\ v \notin {Null, Undefined, NaN, Int2Rat(0), Str(<<>>)}
  /\ v # [bool |-> FALSE]

\* what analyzeWithLLM returns for a reply with response.ok
analysisOfReply(reply) ==
  LET parsed == safeJsonParse(reply.content)
  IN  IF Truthy(parsed) THEN parsed ELSE UnparsedAnalysis(reply.content)

\* process.env.GROQ_API_KEY is set and not empty
HasApiKey(environment) == Truthy(environment.GROQ_API_KEY)

(***************************************************************************)
(* POST /api/analyze                                                       *)
(***************************************************************************)
None == [none |-> TRUE]

\* JSON.stringify of the analysis: an array keeps its items only, NaN
\* becomes null, an unset field is left out (stays Undefined here)
JsonOfAnalysis(analysis) ==
  IF analysis.kind = "array"
  THEN [kind |-> "array", items |-> analysis.items, fields |-> NoFields]
  ELSE [analysis EXCEPT
          !.fields = [f \in FieldNames |->
                        IF analysis.fields[f] = NaN THEN Null
                        ELSE analysis.fields[f]]]

ErrorResponse(status, message) ==
  [status |-> status, error |-> message, analysis |-> None, meta |-> None]

ErrBothRequired == "Please provide both a resume and a Job Description."

ErrLLM == "LLM error: "

ErrTypeError == "Cannot create property 'matchScore'"

FieldOr(form, field) == IF form[field] = Null THEN <<>> ELSE form[field].str

candidateRange(form) ==
  normalizeRange(parseSalary(form.cvSalaryMin), parseSalary(form.cvSalaryMax))

roleRange(form) ==
  normalizeRange(parseSalary(form.jdSalaryMin), parseSalary(form.jdSalaryMax))

\* lines 531-554: the deterministic fields written over the analysis
mergeFields(analysis, match, keywordStats, compensation, environment) ==
  LET f0 == analysis.fields
      keywordMatches ==
        IF ~IsArray(f0.keywordMatches) \/ f0.keywordMatches.arr = <<>>
        THEN Arr(keywordStats.keywordMatches) ELSE f0.keywordMatches
      missingKeywords ==
        IF ~IsArray(f0.missingKeywords) \/ f0.missingKeywords.arr = <<>>
        THEN Arr(keywordStats.missingKeywords) ELSE f0.missingKeywords
      compensationFit ==
        IF f0.compensationFit = Undefined \/ f0.compensationFit = Null
        THEN compensation.score ELSE f0.compensationFit
      existingNotes ==
        IF IsArray(f0.compensationNotes) THEN f0.compensationNotes.arr ELSE <<>>
      compensationNotes ==
        IF existingNotes = <<>>
        THEN Arr([i \in DOMAIN compensation.notes |-> Text(compensation.notes[i])])
        ELSE f0.compensationNotes
  IN  [analysis EXCEPT !.fields =
        [f0 EXCEPT
           !.matchScore = Int2Rat(match.score),
           !.scoreBreakdown = Breakdown(match.breakdown),
           !.keywordMatches = keywordMatches,
           !.missingKeywords = missingKeywords,
           !.compensationFit = compensationFit,
           !.compensationNotes = compensationNotes,
           !.overallScore =
              computeOverallScore(Int2Rat(match.score), compensationFit,
                                  environment)]]

\* lines 528-554
mergeAnalysis(analysis, cvText, jdText, compensation, environment) ==
  mergeFields(analysis, computeMatchScore(cvText, jdText),
              extractKeywordStats(jdText, cvText), compensation, environment)

\* lines 556-563
successResponse(merged, cvText, jdText) ==
  [status |-> 200, error |-> None,
   analysis |-> JsonOfAnalysis(merged),
   meta |-> [cvChars |-> Len(cvText), jdChars |-> Len(jdText),
             scoreBreakdown |-> merged.fields.scoreBreakdown]]

(***************************************************************************)
(* Inputs                                                                  *)
(***************************************************************************)
\* the handler keeps nothing between requests; in Spec request 1 is the
\* one in flight and the other slots hold requests that have not arrived,
\* in SpecConcurrent every request is in flight
NumReqs == 2

Reqs == 1..NumReqs

File(size, name, type, text) ==
  [size |-> size, name |-> name, type |-> type, text |-> text]

TxtFile == File(2048, <<"c","v",".","t","x","t">>, <<"t","e","x","t","/","p","l","a","i","n">>, <<"P","y","t","h","o","n","\n","S","Q","L"," ","\\","t"," ","A","W","S","\n">>)

BigFile == File(MAX_FILE_MB * 1024 * 1024 + 1, <<"c","v",".","p","d","f">>, PdfType, <<"p","y","t","h","o","n">>)

ExeFile == File(512, <<"j","d",".","e","x","e">>, <<"a","p","p","l","i","c","a","t","i","o","n","/","o","c","t","e","t","-","s","t","r","e","a","m">>, <<"d","o","c","k","e","r">>)

PdfFile == File(4096, <<"j","d",".","P","D","F">>, <<>>, <<"t","h","e"," ","a","n","d">>)

CvTextInputs == {Str(<<" ","\n"," ">>), Str(<<"P","y","t","h","o","n",","," ","S","Q","L">>)}

CvFiles == {Null, TxtFile, BigFile}

JdTextInputs ==
  {Null, Str(<<"a","b","c"," ","b","c","d"," ","c","d","e"," ","d","e","f"," ","e","f","g"," ","f","g","h"," ","g","h","i"," ","h","i","j"," ","i","j","k"," ","j","k","l"," ","k","l","m"," ","p","y","t","h","o","n">>),
   Str(<<"p","y","t","h","o","n"," ","s","q","l"," ","a","w","s">>),
   Str(<<"A","b","o","u","t"," ","u","s","\n","R","e","q","u","i","r","e","m","e","n","t","s",":","\n","p","y","t","h","o","n"," ","s","q","l","\n","N","i","c","e"," ","t","o"," ","h","a","v","e","\n","d","o","c","k","e","r">>)}

JdFiles == {Null, ExeFile, PdfFile}

Salaries(cvMin, cvMax, jdMin, jdMax) ==
  [cvSalaryMin |-> cvMin, cvSalaryMax |-> cvMax,
   jdSalaryMin |-> jdMin, jdSalaryMax |-> jdMax]

\* no salary at all, the candidate's only, the role's only (one bound), both
SalaryInputs ==
  {Salaries(Null, Null, Null, Null),
   Salaries(Str(<<"$","1","1","0",",","0","0","0">>), Str(<<"8","0","0","0","0">>), Null, Null),
   Salaries(Null, Null, Str(<<"9","0","0","0","0">>), Str(<<>>)),
   Salaries(Str(<<"$","8","0",",","0","0","0">>), Str(<<"1","1","0","0","0","0">>),
            Str(<<"9","0","0","0","0">>), Str(<<"1","2","0","0","0","0"," ","U","S","D">>))}

Forms ==
  {[cvText |-> cv, jdText |-> jd, cvFile |-> cvFile, jdFile |-> jdFile,
    cvSalaryMin |-> salary.cvSalaryMin, cvSalaryMax |-> salary.cvSalaryMax,
    jdSalaryMin |-> salary.jdSalaryMin, jdSalaryMax |-> salary.jdSalaryMax] :
   cv \in CvTextInputs, jd \in JdTextInputs, cvFile \in CvFiles,
   jdFile \in JdFiles, salary \in SalaryInputs}

Environments ==
  [GROQ_API_KEY : {Undefined, Str(<<"g","s","k">>)},
   SKILL_WEIGHT : {Undefined, Str(<<"0",".","5">>), Str(<<"1",".","5">>)}]

\* the objects an LLM reply may hold: with or without a compensationFit, and
\* either bare or carrying its own score, breakdown, keywords and notes
LLMObjects ==
  {Object([NoFields EXCEPT
     !.summary = Text("llm summary"),
     !.matchScore = IF full THEN Int2Rat(42) ELSE Undefined,
     !.compensationFit = cf,
     !.scoreBreakdown = IF full THEN Str(<<"l","l","m">>) ELSE Undefined,
     !.keywordMatches = IF full THEN Arr(<<<<"p","y","t","h","o","n">>>>) ELSE Undefined,
     !.missingKeywords = IF full THEN Arr(<<>>) ELSE Undefined,
     !.compensationNotes = IF full THEN Arr(<<Text("llm note")>>) ELSE Undefined]) :
   cf \in {Undefined, Null, Int2Rat(50), Int2Rat(150), Str(<<"h","i","g","h">>)},
   full \in BOOLEAN}

ReplyContents ==
  {NotJson, [json |-> Int2Rat(5)], [json |-> Array(<<Str(<<"p","y","t","h","o","n">>)>>)]}
  \cup {[json |-> o] : o \in LLMObjects}

\* the HTTP response of the LLM endpoint
LLMReplies ==
  {[ok |-> FALSE, content |-> NotJson]}
  \cup {[ok |-> TRUE, content |-> c] : c \in ReplyContents}

(***************************************************************************)
(* The handler, one action per stretch between two awaits                  *)
(***************************************************************************)
\* the state of the home page component after its first render (page.tsx,
\* the useState calls of Home); run is the point handleAnalyze has reached
\* and fetch the request or the response in flight
InitialPage ==
  [cvMode |-> "file", jdMode |-> "text", cvFile |-> Null, jdFile |-> Null,
   cvText |-> <<>>, jdText |-> <<>>,
   cvSalaryMin |-> <<>>, cvSalaryMax |-> <<>>,
   jdSalaryMin |-> <<>>, jdSalaryMax |-> <<>>,
   analysis |-> Null, meta |-> Null, loading |-> FALSE, error |-> Null,
   run |-> "idle", fetch |-> None]

IdleRequest ==
  [pc |-> "idle", form |-> None, cvText |-> <<>>, jdText |-> <<>>,
   compensation |-> None, analysis |-> None, llmCalls |-> 0,
   reply |-> None, response |-> None]

NewRequest == [IdleRequest EXCEPT !.pc = "new"]

NoCall == [op |-> "none"]

Init ==
  /\ page = InitialPage
  /\ env \in Environments
  /\ req = [r \in Reqs |-> IF r = 1 THEN NewRequest ELSE IdleRequest]
  /\ call = NoCall

\* await req.formData(), the form being one of forms
ReceiveFrom(r, forms) ==
  /\ req[r].pc = "new"
  /\ \E form \in forms :
       req' = [req EXCEPT ![r].pc = "resolveCv", ![r].form = form]
  /\ UNCHANGED <<env, call, page>>

Receive(r) == ReceiveFrom(r, Forms)

\* resolveText reading the file whenever there is one
resolveText_FileFirst(textInput, file) ==
  IF file # Null
  THEN LET extracted == extractTextFromFile(file)
       IN  IF extracted.ok
           THEN [ok |-> TRUE, text |-> clampText(extracted.text)]
           ELSE extracted
  ELSE [ok |-> TRUE, text |-> clampText(textInput)]

\* the text of one side: [ok, text] or [ok, error]
resolveText(textInput, file) ==
  IF Trim(textInput) # <<>> THEN [ok |-> TRUE, text |-> clampText(textInput)]
  ELSE IF file # Null
       THEN LET extracted == extractTextFromFile(file)
            IN  IF extracted.ok
                THEN [ok |-> TRUE, text |-> clampText(extracted.text)]
                ELSE extracted
       ELSE [ok |-> TRUE, text |-> <<>>]

ResolveCv(r) ==
  /\ req[r].pc = "resolveCv"
  /\ LET resolved == resolveText(FieldOr(req[r].form, "cvText"), req[r].form.cvFile)
     IN  req' = IF resolved.ok
                THEN [req EXCEPT ![r].pc = "resolveJd", ![r].cvText = resolved.text]
                ELSE [req EXCEPT ![r].pc = "done",
                                 ![r].response = ErrorResponse(500, resolved.error)]
  /\ UNCHANGED <<env, call, page>>

ResolveJd(r) ==
  /\ req[r].pc = "resolveJd"
  /\ LET resolved == resolveText(FieldOr(req[r].form, "jdText"), req[r].form.jdFile)
     IN  req' = IF resolved.ok
                THEN [req EXCEPT ![r].pc = "validate", ![r].jdText = resolved.text]
                ELSE [req EXCEPT ![r].pc = "done",
                                 ![r].response = ErrorResponse(500, resolved.error)]
  /\ UNCHANGED <<env, call, page>>

\* validated without the rejection of an empty text
validated_NoEmptyCheck(request, compensation, environment) ==
  IF ~HasApiKey(environment)
  THEN [request EXCEPT !.pc = "merge",
                       !.compensation = compensation,
                       !.analysis = heuristicAnalysis(request.cvText, request.jdText)]
  ELSE [request EXCEPT !.pc = "awaitLLM",
                       !.compensation = compensation,
                       !.llmCalls = @ + 1]

\* the request after lines 502-526 and the start of analyzeWithLLM
validated(request, compensation, environment) ==
  IF request.cvText = <<>> \/ request.jdText = <<>>
  THEN [request EXCEPT !.pc = "done",
                       !.response = ErrorResponse(400, ErrBothRequired)]
  ELSE IF ~HasApiKey(environment)
  THEN [request EXCEPT !.pc = "merge",
                       !.compensation = compensation,
                       !.analysis = heuristicAnalysis(request.cvText, request.jdText)]
  ELSE [request EXCEPT !.pc = "awaitLLM",
                       !.compensation = compensation,
                       !.llmCalls = @ + 1]

\* lines 502-526 up to the fetch inside analyzeWithLLM
Validate(r) ==
  /\ req[r].pc = "validate"
  /\ req' = [req EXCEPT ![r] =
               validated(@, computeCompensationFit(candidateRange(req[r].form),
                                                   roleRange(req[r].form)), env)]
  /\ UNCHANGED <<env, call, page>>

\* LLMRespondsWith sending the request again after a reply that is not OK
LLMRespondsWith_Retries(r, replies) ==
  /\ req[r].pc = "awaitLLM"
  /\ \E reply \in replies :
       req' = IF ~reply.ok /\ req[r].llmCalls < 2
              THEN [req EXCEPT ![r].llmCalls = @ + 1]
              ELSE IF ~reply.ok
              THEN [req EXCEPT ![r].pc = "done", ![r].reply = reply,
                               ![r].response = ErrorResponse(500, ErrLLM)]
              ELSE [req EXCEPT ![r].pc = "merge", ![r].reply = reply,
                               ![r].analysis = analysisOfReply(reply)]
  /\ UNCHANGED <<env, call, page>>

\* the fetch settles with one of replies: lines 451-472
LLMRespondsWith(r, replies) ==
  /\ req[r].pc = "awaitLLM"
  /\ \E reply \in replies :
       req' = IF ~reply.ok
              THEN [req EXCEPT ![r].pc = "done", ![r].reply = reply,
                               ![r].response = ErrorResponse(500, ErrLLM)]
              ELSE [req EXCEPT ![r].pc = "merge", ![r].reply = reply,
                               ![r].analysis = analysisOfReply(reply)]
  /\ UNCHANGED <<env, call, page>>

LLMResponds(r) == LLMRespondsWith(r, LLMReplies)

\* the request once the merged analysis is written and the response built
responded(request, merged) ==
  [request EXCEPT !.pc = "done", !.analysis = merged,
                  !.response = successResponse(merged, request.cvText, request.jdText)]

\* Merge reading the texts of request 1, as if the handler kept them in a
\* variable of the module
Merge_SharedTexts(r) ==
  /\ req[r].pc = "merge"
  /\ req' =
       IF ~IsAnalysisObject(req[r].analysis)
       THEN [req EXCEPT ![r].pc = "done",
                        ![r].response = ErrorResponse(500, ErrTypeError)]
       ELSE [req EXCEPT ![r] =
               responded(@, mergeAnalysis(req[r].analysis, req[1].cvText,
                                          req[1].jdText, req[r].compensation, env))]
  /\ UNCHANGED <<env, call, page>>

\* lines 528-563; assigning a property to a primitive throws in a module
Merge(r) ==
  /\ req[r].pc = "merge"
  /\ req' =
       IF ~IsAnalysisObject(req[r].analysis)
       THEN [req EXCEPT ![r].pc = "done",
                        ![r].response = ErrorResponse(500, ErrTypeError)]
       ELSE [req EXCEPT ![r] =
               responded(@, mergeAnalysis(req[r].analysis, req[r].cvText,
                                          req[r].jdText, req[r].compensation, env))]
  /\ UNCHANGED <<env, call, page>>

Next ==
  \E r \in Reqs :
    \/ Receive(r)
    \/ ResolveCv(r)
    \/ ResolveJd(r)
    \/ Validate(r)
    \/ LLMResponds(r)
    \/ Merge(r)

Spec == Init /\ [][Next]_vars

(***************************************************************************)
(* The scoring functions on their own: Init draws the arguments, an        *)
(* action applies the function and records what it returns.                *)
(***************************************************************************)
MaxJDBlocks == 3

MaxSalary == 4

\* a JD is up to MaxJDBlocks of these blocks, one per line group
JDBlocks ==
  {<<"p","y","t","h","o","n"," ","s","q","l"," ","a","w","s">>,
   <<"R","e","q","u","i","r","e","m","e","n","t","s",":","\n","p","y","t","h","o","n"," ","s","q","l"," ","a","w","s">>,
   <<"W","h","a","t"," ","y","o","u","'","l","l"," ","d","o","\n"," "," ","D","o","c","k","e","r",","," ","p","y","t","h","o","n"," "," ">>,
   <<"N","i","c","e"," ","t","o"," ","h","a","v","e",":","\n","C","+","+"," ","t","h","e">>,
   <<"t","h","e"," ","a","n","d">>,
   <<"S","k","i","l","l","s"," ","p","y","t","h","o","n">>}

RECURSIVE SeqsUpTo(_, _)
SeqsUpTo(S, k) ==
  IF k = 0 THEN {<<>>}
  ELSE LET shorter == SeqsUpTo(S, k - 1)
       IN  shorter \cup {Append(q, x) : q \in shorter, x \in S}

JDTexts == {Join(blocks, <<"\n">>) : blocks \in SeqsUpTo(JDBlocks, MaxJDBlocks)}

CVTexts ==
  {<<>>,
   <<"p","y","t","h","o","n"," ","s","q","l">>,
   <<"P","y","t","h","o","n",","," ","S","Q","L"," ","a","n","d"," ","A","W","S">>,
   <<"d","o","c","k","e","r"," ","c","+","+">>,
   <<"A","W","S"," ","s","q","l"," ","p","y","t","h","o","n"," ","d","o","c","k","e","r"," ","c","p","l","u","s","p","l","u","s">>}

SalaryPoints ==
  {Int2Rat(k) : k \in 0..MaxSalary}
  \cup {Rat(1, 2), Int2Rat(80000), Int2Rat(90000), Int2Rat(110000), Int2Rat(120000)}

\* the ranges normalizeRange can return: Null, or min <= max
SalaryRanges ==
  {Null} \cup {[min |-> pair[1], max |-> pair[2]] :
                 pair \in {p \in SalaryPoints \X SalaryPoints : ~RatLess(p[2], p[1])}}

InitCore ==
  /\ page = InitialPage
  /\ env = [GROQ_API_KEY |-> Undefined, SKILL_WEIGHT |-> Undefined]
  /\ req = [r \in Reqs |-> IdleRequest]
  /\ \/ call \in [op : {"computeMatchScore"}, cvText : CVTexts, jdText : JDTexts,
                  result : {None}]
     \/ call \in [op : {"computeCompensationFit"}, candidate : SalaryRanges,
                  role : SalaryRanges, result : {None}]

ApplyComputeMatchScore ==
  /\ call.op = "computeMatchScore"
  /\ call.result = None
  /\ call' = [call EXCEPT !.result = computeMatchScore(call.cvText, call.jdText)]
  /\ UNCHANGED <<env, req, page>>

ApplyComputeCompensationFit ==
  /\ call.op = "computeCompensationFit"
  /\ call.result = None
  /\ call' = [call EXCEPT !.result = computeCompensationFit(call.candidate, call.role)]
  /\ UNCHANGED <<env, req, page>>

NextCore == ApplyComputeMatchScore \/ ApplyComputeCompensationFit

SpecCore == InitCore /\ [][NextCore]_vars

(***************************************************************************)
(* Properties of the handler's response                                    *)
(***************************************************************************)
Succeeded(r) == req[r].pc = "done" /\ req[r].response.status = 200

ResponseField(r, f) == req[r].response.analysis.fields[f]

ScoreValues == {Int2Rat(k) : k \in 0..100}

\* C1: every response that carries an analysis has analysis.matchScore and
\* analysis.scoreBreakdown equal to computeMatchScore of the clamped texts,
\* whatever the LLM replied
C1_MatchScoreFromCore ==
  \A r \in Reqs :
    Succeeded(r) =>
      LET match == computeMatchScore(req[r].cvText, req[r].jdText)
      IN  /\ ResponseField(r, "matchScore") = Int2Rat(match.score)
          /\ ResponseField(r, "scoreBreakdown") = Breakdown(match.breakdown)

\* C6: when the candidate range or the role range is unset, the response has
\* compensationFit = null and overallScore equal to matchScore
C6_UnsetRangeGivesNullFit ==
  \A r \in Reqs :
    (/\ Succeeded(r)
     /\ \/ candidateRange(req[r].form) = Null
        \/ roleRange(req[r].form) = Null)
    => /\ ResponseField(r, "compensationFit") = Null
       /\ ResponseField(r, "overallScore") = ResponseField(r, "matchScore")

\* C7: in every successful response matchScore is an integer in 0..100,
\* compensationFit is null or an integer in 0..100, and overallScore is
\* null or an integer in 0..100
C7_ScoresInRange ==
  \A r \in Reqs :
    Succeeded(r) =>
      /\ ResponseField(r, "matchScore") \in ScoreValues
      /\ ResponseField(r, "compensationFit") \in ScoreValues \cup {Null}
      /\ ResponseField(r, "overallScore") \in ScoreValues \cup {Null}

(***************************************************************************)
(* Properties of computeMatchScore                                         *)
(***************************************************************************)
MatchScored == call.op = "computeMatchScore" /\ call.result # None

\* the sections of the JD in which coverageScore finds a significant token
ActiveSections ==
  LET sections == splitJDSections(call.jdText)
  IN  {name \in SectionNames : TokenSet(sections[name]) # {}}

BaseWeightPercent ==
  [requirements |-> 60, responsibilities |-> 25, preferred |-> 15, other |-> 10]

RECURSIVE SumInt(_, _)
SumInt(S, f) ==
  IF S = {} THEN 0
  ELSE LET x == CHOOSE y \in S : TRUE IN f[x] + SumInt(S \ {x}, f)

RECURSIVE ProdInt(_, _)
ProdInt(S, f) ==
  IF S = {} THEN 1
  ELSE LET x == CHOOSE y \in S : TRUE IN f[x] * ProdInt(S \ {x}, f)

\* round(100 * sum over the sections A of (matched/total) * (w / sum of w)),
\* in integers over the common denominator
ExpectedScore(A, parts) ==
  LET total == [a \in A |-> parts[a].total]
      W == SumInt(A, BaseWeightPercent)
      D == W * ProdInt(A, total)
      N == SumInt(A, [a \in A |->
             parts[a].matched * BaseWeightPercent[a] * ProdInt(A \ {a}, total)])
  IN  (200 * N + D) \div (2 * D)

ExampleCv == <<"p","y","t","h","o","n"," ","s","q","l">>

ExampleJd == <<"R","e","q","u","i","r","e","m","e","n","t","s",":","\n","p","y","t","h","o","n"," ","s","q","l"," ","a","w","s">>

\* C2: with at least one active section the score is
\* round(100 * sum of ratio_i * w_i / sum of active w_j) over the active
\* sections only, with base weights 0.6, 0.25, 0.15, 0.1; resume
\* {python, sql} against a sole requirements section {python, sql, aws}
\* gives 67
C2_WeightedScore ==
  MatchScored =>
    LET active == ActiveSections
    IN  active # {} =>
          /\ call.result.score = ExpectedScore(active, call.result.breakdown)
          /\ \A name \in SectionNames :
               /\ call.result.breakdown[name].total > 0 <=> name \in active
               /\ call.result.breakdown[name].weight
                    = Rat(BaseWeightPercent[name], 100)
          /\ (call.cvText = ExampleCv /\ call.jdText = ExampleJd)
               => call.result.score = 67

C2_Witness ==
  /\ MatchScored
  /\ call.cvText = ExampleCv
  /\ call.jdText = ExampleJd
  /\ ActiveSections = {"requirements"}
  /\ call.result.score = 67

\* the JD has a line that splitJDSections recognises as a heading
HasHeading(jdText) ==
  LET lines == SplitOn(jdText, [i \in DOMAIN jdText |-> IsNewline(jdText[i])])
  IN  \E i \in DOMAIN lines :
        LET trimmed == Trim(lines[i])
        IN  trimmed # <<>> /\ HeadingOf(trimmed) # "none"

\* the sum of the renormalised weights computeMatchScore uses
AdjustedWeightSum ==
  LET breakdown == sectionBreakdown(call.cvText, call.jdText)
  IN  SumOver(activeParts(breakdown),
              [name \in SectionNames |-> adjustedWeight(breakdown, name)])

\* C3 as stated: for every JD with a heading line the renormalised weights
\* of the active sections sum to 1.0
C3_HeadingImpliesUnitWeights ==
  (MatchScored /\ HasHeading(call.jdText)) => AdjustedWeightSum = Int2Rat(1)

\* C3 amended: for every JD with a heading line and at least one active
\* section the renormalised weights of the active sections sum to 1.0
C3_ActiveWeightsSumToOne ==
  (MatchScored /\ HasHeading(call.jdText) /\ ActiveSections # {})
    => AdjustedWeightSum = Int2Rat(1)

C3_Witness ==
  /\ MatchScored
  /\ HasHeading(call.jdText)
  /\ Cardinality(ActiveSections) >= 2
  /\ AdjustedWeightSum = Int2Rat(1)

SameTokens == TokenSet(call.cvText) = TokenSet(call.jdText)

\* C4 as stated: identical token sets give every section ratio 1.0 and
\* match score 100
C4_IdenticalGivesFullScore ==
  (MatchScored /\ SameTokens) =>
    /\ \A name \in SectionNames : call.result.breakdown[name].ratio = Int2Rat(1)
    /\ call.result.score = 100

\* C4 amended: identical, non-empty token sets give every section that has
\* total > 0 ratio 1.0, at least one such section, and match score 100
C4_IdenticalNonEmptyGivesFullScore ==
  (MatchScored /\ SameTokens /\ TokenSet(call.jdText) # {}) =>
    /\ \A name \in SectionNames :
         call.result.breakdown[name].total > 0
           => call.result.breakdown[name].ratio = Int2Rat(1)
    /\ \E name \in SectionNames : call.result.breakdown[name].total > 0
    /\ call.result.score = 100

C4_Witness ==
  /\ MatchScored
  /\ SameTokens
  /\ Cardinality(ActiveSections) >= 2
  /\ call.result.score = 100

\* C5: disjoint token sets give match score 0, on the sectioned path and on
\* the whole-JD fallback path
C5_DisjointGivesZero ==
  (MatchScored /\ TokenSet(call.cvText) \cap TokenSet(call.jdText) = {})
    => call.result.score = 0

C5_Witness ==
  /\ MatchScored
  /\ TokenSet(call.cvText) \cap TokenSet(call.jdText) = {}
  /\ TokenSet(call.cvText) # {}
  /\ ActiveSections # {}
  /\ call.result.score = 0

(***************************************************************************)
(* Properties of computeCompensationFit                                    *)
(***************************************************************************)
FitScored ==
  /\ call.op = "computeCompensationFit"
  /\ call.result # None
  /\ call.candidate # Null
  /\ call.role # Null

\* span = max(1, role.max - role.min)
ClaimedSpan == RatMax(Int2Rat(1), RatSub(call.role.max, call.role.min))

\* overlap = max(0, min(candidate.max, role.max) - max(candidate.min, role.min))
ClaimedOverlap ==
  RatMax(Int2Rat(0),
         RatSub(RatMin(call.candidate.max, call.role.max),
                RatMax(call.candidate.min, call.role.min)))

\* k = round(x): k - 1/2 <= x < k + 1/2
IsRounded(k, x) ==
  /\ DOMAIN k = {"n", "d"}
  /\ k.d = 1
  /\ ~RatLess(x, RatSub(k, Rat(1, 2)))
  /\ RatLess(x, RatAdd(k, Rat(1, 2)))

Range80to110 == [min |-> Int2Rat(80000), max |-> Int2Rat(110000)]

Range90to120 == [min |-> Int2Rat(90000), max |-> Int2Rat(120000)]

\* C8: with both ranges present and overlap > 0 the score is
\* round(100 * overlap / span); candidate [80000,110000] against role
\* [90000,120000] gives 67
C8_OverlapScore ==
  (FitScored /\ RatLess(Int2Rat(0), ClaimedOverlap)) =>
    /\ IsRounded(call.result.score,
                 RatDiv(RatMul(Int2Rat(100), ClaimedOverlap), ClaimedSpan))
    /\ (call.candidate = Range80to110 /\ call.role = Range90to120)
         => call.result.score = Int2Rat(67)

C8_Witness ==
  /\ FitScored
  /\ call.candidate = Range80to110
  /\ call.role = Range90to120
  /\ ClaimedOverlap = Int2Rat(20000)
  /\ ClaimedSpan = Int2Rat(30000)
  /\ call.result.score = Int2Rat(67)

\* C9: for all present ranges with min <= max, single-point role ranges
\* included, the score is an integer with 0 <= score <= 100
C9_FitScoreInRange ==
  FitScored => call.result.score \in ScoreValues

C9_Witness ==
  /\ FitScored
  /\ call.role.min = call.role.max
  /\ RatLess(call.role.max, call.candidate.min)
  /\ call.result.score \in ScoreValues

\* C10: a candidate range equal to the role range, a single-point range
\* included, scores 100
C10_EqualRangesScore100 ==
  (FitScored /\ call.candidate = call.role) => call.result.score = Int2Rat(100)

C10_Witness ==
  /\ FitScored
  /\ call.candidate = call.role
  /\ call.role.min = call.role.max
  /\ call.result.score = Int2Rat(100)

(***************************************************************************)
(* The smaller functions on their own: computeOverallScore,                *)
(* normalizeRange and splitJDSections                                      *)
(***************************************************************************)
\* what process.env.SKILL_WEIGHT may hold, each text with the number it
\* denotes (NaN when it denotes none)
ConfiguredWeights ==
  {[text |-> Str(<<"0",".","5">>), value |-> Rat(1, 2)],
   [text |-> Str(<<"0",".","2","5">>), value |-> Rat(1, 4)],
   [text |-> Str(<<"0",".","8">>), value |-> Rat(4, 5)],
   [text |-> Str(<<"0">>), value |-> Int2Rat(0)],
   [text |-> Str(<<"1">>), value |-> Int2Rat(1)],
   [text |-> Str(<<"1",".","5">>), value |-> Rat(3, 2)],
   [text |-> Str(<<"-","0",".","3">>), value |-> Rat(-3, 10)],
   [text |-> Str(<<"a","b","c">>), value |-> NaN]}

SkillWeights == {Undefined} \cup {c.text : c \in ConfiguredWeights}

ScoreSamples == {0, 1, 33, 50, 67, 99, 100}

\* the values of type ScoreInput, and NaN
ScoreInputs == {Null, Undefined, NaN} \cup {Int2Rat(k) : k \in ScoreSamples}

\* the lines a JD of the segmenter's calls is made of: content, a blank
\* line, an empty line, a heading of each kind and headings that match
\* two patterns at once
JDLines ==
  {<<"p","y","t","h","o","n"," ","s","q","l">>,
   <<" ","d","o","c","k","e","r"," ","a","w","s"," ">>,
   <<" "," ">>,
   <<>>,
   <<"R","e","q","u","i","r","e","m","e","n","t","s",":">>,
   <<"W","h","a","t"," ","y","o","u","'","l","l"," ","d","o">>,
   <<"N","i","c","e"," ","t","o"," ","h","a","v","e">>,
   <<"S","k","i","l","l","s"," ","f","o","r"," ","t","h","e"," ","r","o","l","e">>,
   <<"R","o","l","e"," ","i","s"," ","a"," ","p","l","u","s">>,
   <<"B","o","n","u","s"," ","s","k","i","l","l","s">>}

\* lines in which a heading keyword stands among other words, in some
\* letter case, or only as part of a longer word; each with the section
\* its keyword names ("none" when it has no keyword as a whole word) and
\* with its other words
KeywordLines ==
  {[text |-> <<"S","t","r","o","n","g"," ","P","y","t","h","o","n"," ","S","K","I","L","L","S"," ","n","e","e","d","e","d">>, heading |-> "requirements",
    words |-> { <<"S","t","r","o","n","g">>, <<"P","y","t","h","o","n">>, <<"n","e","e","d","e","d">> }],
   [text |-> <<"T","h","e"," ","r","o","l","e"," ","i","n","v","o","l","v","e","s"," ","d","o","c","k","e","r">>, heading |-> "responsibilities",
    words |-> { <<"T","h","e">>, <<"i","n","v","o","l","v","e","s">>, <<"d","o","c","k","e","r">> }],
   [text |-> <<"G","o","l","a","n","g"," ","i","s"," ","a"," ","P","L","U","S">>, heading |-> "preferred",
    words |-> { <<"G","o","l","a","n","g">> }],
   [text |-> <<"P","R","E","F","E","R","R","E","D",":"," ","r","u","s","t">>, heading |-> "preferred",
    words |-> { <<"r","u","s","t">> }],
   [text |-> <<"u","p","s","k","i","l","l","i","n","g"," ","r","o","l","e","s"," ","b","o","n","u","s","e","s">>, heading |-> "none",
    words |-> { <<"u","p","s","k","i","l","l","i","n","g">>, <<"r","o","l","e","s">>, <<"b","o","n","u","s","e","s">> }],
   [text |-> <<"k","u","b","e","r","n","e","t","e","s"," ","t","e","r","r","a","f","o","r","m">>, heading |-> "none",
    words |-> { <<"k","u","b","e","r","n","e","t","e","s">>, <<"t","e","r","r","a","f","o","r","m">> }]}

KeywordLineTexts == {line.text : line \in KeywordLines}

\* the raw bounds parseSalary hands to normalizeRange
SalaryBounds == {Null} \cup SalaryPoints

DefaultEnv == [GROQ_API_KEY |-> Undefined, SKILL_WEIGHT |-> Undefined]

InitParts ==
  /\ page = InitialPage
  /\ req = [r \in Reqs |-> IdleRequest]
  /\ \/ /\ env \in [GROQ_API_KEY : {Undefined}, SKILL_WEIGHT : SkillWeights]
        /\ call \in [op : {"computeOverallScore"}, matchScore : ScoreInputs,
                     compensationFit : ScoreInputs, result : {None}]
     \/ /\ env = DefaultEnv
        /\ call \in [op : {"normalizeRange"}, min : SalaryBounds,
                     max : SalaryBounds, result : {None}]
     \/ /\ env = DefaultEnv
        /\ call \in {[op |-> "splitJDSections", lines |-> lines,
                      jdText |-> Join(lines, <<"\n">>), result |-> None] :
                       lines \in SeqsUpTo(JDLines, MaxJDBlocks)
                                  \cup SeqsUpTo(KeywordLineTexts, MaxJDBlocks)}

ApplyComputeOverallScore ==
  /\ call.op = "computeOverallScore"
  /\ call.result = None
  /\ call' = [call EXCEPT !.result =
                computeOverallScore(call.matchScore, call.compensationFit, env)]
  /\ UNCHANGED <<env, req, page>>

ApplyNormalizeRange ==
  /\ call.op = "normalizeRange"
  /\ call.result = None
  /\ call' = [call EXCEPT !.result = normalizeRange(call.min, call.max)]
  /\ UNCHANGED <<env, req, page>>

ApplySplitJDSections ==
  /\ call.op = "splitJDSections"
  /\ call.result = None
  /\ call' = [call EXCEPT !.result = splitJDSections(call.jdText)]
  /\ UNCHANGED <<env, req, page>>

NextParts ==
  \/ ApplyComputeOverallScore
  \/ ApplyNormalizeRange
  \/ ApplySplitJDSections

SpecParts == InitParts /\ [][NextParts]_vars

(***************************************************************************)
(* Properties of computeOverallScore                                       *)
(***************************************************************************)
OverallScored == call.op = "computeOverallScore" /\ call.result # None

\* floor(m * w + c * (1 - w) + 1/2) for integers m, c and the rational w
RoundedBlend(m, c, w) ==
  (2 * (m * w.n + c * (w.d - w.n)) + w.d) \div (2 * w.d)

\* C11: computeOverallScore returns null when matchScore is not a number,
\* matchScore itself when compensationFit is null or undefined, and
\* otherwise round(matchScore * w + compensationFit * (1 - w)) for the
\* validated weight w; weight 0.8 with 67 and 67 gives 67
C11_OverallScore ==
  OverallScored =>
    /\ ~TypeofNumber(call.matchScore) => call.result = Null
    /\ (TypeofNumber(call.matchScore)
          /\ call.compensationFit \in {Null, Undefined})
         => call.result = call.matchScore
    /\ (IsNumber(call.matchScore) /\ IsNumber(call.compensationFit))
         => call.result
              = Int2Rat(RoundedBlend(call.matchScore.n, call.compensationFit.n,
                                     skillWeight(env)))
    /\ (/\ env.SKILL_WEIGHT = Undefined
        /\ call.matchScore = Int2Rat(67)
        /\ call.compensationFit = Int2Rat(67))
         => call.result = Int2Rat(67)

C11_Witness ==
  /\ OverallScored
  /\ env.SKILL_WEIGHT = Undefined
  /\ skillWeight(env) = Rat(8, 10)
  /\ call.matchScore = Int2Rat(67)
  /\ call.compensationFit = Int2Rat(67)
  /\ call.result = Int2Rat(67)

\* the number the configured SKILL_WEIGHT denotes; 0.8 when it is not set
ConfiguredValue ==
  IF env.SKILL_WEIGHT = Undefined THEN Rat(4, 5)
  ELSE (CHOOSE c \in ConfiguredWeights : c.text = env.SKILL_WEIGHT).value

\* the configured weight lies strictly inside (0, 1)
ValidWeight ==
  /\ IsNumber(ConfiguredValue)
  /\ ConfiguredValue.n > 0
  /\ ConfiguredValue.n < ConfiguredValue.d

\* C12: a SKILL_WEIGHT that is non-numeric, <= 0 or >= 1 is replaced by 0.8
\* and computeOverallScore still returns a number; a weight strictly inside
\* (0, 1) is used as configured
C12_InvalidWeightFallsBack ==
  (OverallScored /\ IsNumber(call.matchScore) /\ IsNumber(call.compensationFit))
    => /\ IsNumber(call.result)
       /\ call.result
            = Int2Rat(RoundedBlend(call.matchScore.n, call.compensationFit.n,
                                   IF ValidWeight THEN ConfiguredValue
                                   ELSE Rat(4, 5)))

C12_Witness ==
  /\ OverallScored
  /\ env.SKILL_WEIGHT = Str(<<"1",".","5">>)
  /\ ~ValidWeight
  /\ call.matchScore = Int2Rat(100)
  /\ call.compensationFit = Int2Rat(0)
  /\ call.result = Int2Rat(80)

(***************************************************************************)
(* Properties of the handler's error paths                                 *)
(***************************************************************************)
Done(r) == req[r].pc = "done"

\* the file is larger than 6 MB
Oversized(file) == file.size > 6 * 1024 * 1024

\* the file is neither PDF, DOCX nor text by its type or its extension
Unsupported(file) ==
  /\ file.type \notin {PdfType, DocxType}
  /\ ~StartsWith(file.type, <<"t","e","x","t","/">>)
  /\ getExtension(file.name) \notin {<<"p","d","f">>, <<"d","o","c","x">>, <<"t","x","t">>}

\* the side's pasted text is blank and its file is read but rejected
SideFails(textInput, file) ==
  /\ textInput = Null \/ Trim(textInput.str) = <<>>
  /\ file # Null
  /\ Oversized(file) \/ Unsupported(file)

\* a file extraction of the request fails: the resume's, or, when the resume
\* resolves, the JD's
ExtractionFails(r) ==
  \/ SideFails(req[r].form.cvText, req[r].form.cvFile)
  \/ SideFails(req[r].form.jdText, req[r].form.jdFile)

LLMNotOk(r) == req[r].reply # None /\ ~req[r].reply.ok

\* an error object, an HTTP error status and no analysis payload
ErrorMessages ==
  {ErrTooLarge, ErrUnsupported, ErrBothRequired, ErrLLM, ErrTypeError}

IsErrorResponse(response) ==
  /\ response.status >= 400
  /\ response.error \in ErrorMessages
  /\ response.analysis = None

\* C13: a failed file extraction or a non-OK LLM answer ends in an error
\* object with an HTTP error status and no analysis; a resume or JD text
\* that is empty after resolution ends in status 400 before any scoring or
\* LLM call
C13_ErrorsGiveErrorResponses ==
  \A r \in Reqs :
    Done(r) =>
      /\ (ExtractionFails(r) \/ LLMNotOk(r)) => IsErrorResponse(req[r].response)
      /\ (~ExtractionFails(r) /\ (req[r].cvText = <<>> \/ req[r].jdText = <<>>))
           => /\ req[r].response.status = 400
              /\ IsErrorResponse(req[r].response)
              /\ req[r].llmCalls = 0
              /\ req[r].compensation = None
              /\ req[r].analysis = None

C13_Witness ==
  \E r \in Reqs :
    /\ Done(r)
    /\ req[r].form.cvFile = TxtFile
    /\ req[r].form.jdFile = ExeFile
    /\ SideFails(req[r].form.jdText, req[r].form.jdFile)
    /\ req[r].response.status = 500
    /\ req[r].response.analysis = None

(***************************************************************************)
(* Concurrent requests: every request is in flight from the start and the  *)
(* steps of the handler interleave freely                                  *)
(***************************************************************************)
\* pasted texts with both salary ranges; files only, no salary; no resume
ConcurrentForms ==
  {[cvText |-> Str(<<"P","y","t","h","o","n",","," ","S","Q","L">>), jdText |-> Str(<<"p","y","t","h","o","n"," ","s","q","l"," ","a","w","s">>),
    cvFile |-> Null, jdFile |-> Null,
    cvSalaryMin |-> Str(<<"8","0","0","0","0">>), cvSalaryMax |-> Str(<<"1","1","0","0","0","0">>),
    jdSalaryMin |-> Str(<<"9","0","0","0","0">>), jdSalaryMax |-> Str(<<"1","2","0","0","0","0">>)],
   [cvText |-> Str(<<" ">>), jdText |-> Null,
    cvFile |-> TxtFile, jdFile |-> PdfFile,
    cvSalaryMin |-> Null, cvSalaryMax |-> Null,
    jdSalaryMin |-> Null, jdSalaryMax |-> Null],
   [cvText |-> Str(<<" ">>), jdText |-> Str(<<"p","y","t","h","o","n"," ","s","q","l"," ","a","w","s">>),
    cvFile |-> Null, jdFile |-> Null,
    cvSalaryMin |-> Null, cvSalaryMax |-> Null,
    jdSalaryMin |-> Null, jdSalaryMax |-> Null]}

ConcurrentReplies ==
  {[ok |-> FALSE, content |-> NotJson],
   [ok |-> TRUE, content |-> NotJson],
   [ok |-> TRUE,
    content |-> [json |-> Object([NoFields EXCEPT
                                    !.summary = Text("llm summary"),
                                    !.compensationFit = Int2Rat(50)])]]}

InitConcurrent ==
  /\ page = InitialPage
  /\ env \in [GROQ_API_KEY : {Undefined, Str(<<"g","s","k">>)}, SKILL_WEIGHT : {Undefined}]
  /\ req = [r \in Reqs |-> NewRequest]
  /\ call = NoCall

NextConcurrent ==
  \E r \in Reqs :
    \/ ReceiveFrom(r, ConcurrentForms)
    \/ ResolveCv(r)
    \/ ResolveJd(r)
    \/ Validate(r)
    \/ LLMRespondsWith(r, ConcurrentReplies)
    \/ Merge(r)

SpecConcurrent == InitConcurrent /\ [][NextConcurrent]_vars

\* the response to a request whose analysis is ready, lines 528-568
SoloMerge(analysis, cvText, jdText, compensation, environment) ==
  IF ~IsAnalysisObject(analysis) THEN ErrorResponse(500, ErrTypeError)
  ELSE successResponse(mergeAnalysis(analysis, cvText, jdText, compensation,
                                     environment),
                       cvText, jdText)

\* the response to a request whose texts are resolved, lines 502-568
SoloScore(form, cvText, jdText, environment, reply) ==
  IF cvText = <<>> \/ jdText = <<>> THEN ErrorResponse(400, ErrBothRequired)
  ELSE IF ~HasApiKey(environment)
  THEN SoloMerge(heuristicAnalysis(cvText, jdText), cvText, jdText,
                 computeCompensationFit(candidateRange(form), roleRange(form)),
                 environment)
  ELSE IF ~reply.ok THEN ErrorResponse(500, ErrLLM)
  ELSE SoloMerge(analysisOfReply(reply), cvText, jdText,
                 computeCompensationFit(candidateRange(form), roleRange(form)),
                 environment)

\* the response the handler gives to the form when it runs alone from the
\* first line to the last, the LLM answering with reply
SoloResponse(form, environment, reply) ==
  LET cv == resolveText(FieldOr(form, "cvText"), form.cvFile)
      jd == resolveText(FieldOr(form, "jdText"), form.jdFile)
  IN  IF ~cv.ok THEN ErrorResponse(500, cv.error)
      ELSE IF ~jd.ok THEN ErrorResponse(500, jd.error)
      ELSE SoloScore(form, cv.text, jd.text, environment, reply)

SectionsSplit == call.op = "splitJDSections" /\ call.result # None

HeadingNames == {"requirements", "responsibilities", "preferred"}

\* the heading kinds whose pattern a trimmed line matches
MatchedHeadings(trimmed) ==
  {name \in HeadingNames :
     PatternTest(CASE name = "requirements" -> reqPattern
                   [] name = "responsibilities" -> respPattern
                   [] OTHER -> prefPattern, trimmed)}

\* the fixed order requirements, responsibilities, preferred
HeadingRank ==
  [requirements |-> 1, responsibilities |-> 2, preferred |-> 3]

FirstInOrder(names) ==
  CHOOSE name \in names : \A other \in names : HeadingRank[name] <= HeadingRank[other]

Greatest(S) == CHOOSE i \in S : \A j \in S : i >= j

IsHeadingLine(line) == MatchedHeadings(Trim(line)) # {}

IsContentLine(line) == Trim(line) # <<>> /\ ~IsHeadingLine(line)

\* where the cursor points when line i is read
CursorAt(lines, i) ==
  LET headings == {j \in 1..(i - 1) : IsHeadingLine(lines[j])}
  IN  IF headings = {} THEN "other"
      ELSE FirstInOrder(MatchedHeadings(Trim(lines[Greatest(headings)])))

\* the text of the content lines among lines[1..i] read under the cursor name
RECURSIVE AppendedUpTo(_, _, _)
AppendedUpTo(lines, name, i) ==
  IF i = 0 THEN <<>>
  ELSE AppendedUpTo(lines, name, i - 1)
         \o (IF IsContentLine(lines[i]) /\ CursorAt(lines, i) = name
             THEN <<" ">> \o Trim(lines[i])
             ELSE <<>>)

\* the text of all content lines among lines[1..i]
RECURSIVE ContentUpTo(_, _)
ContentUpTo(lines, i) ==
  IF i = 0 THEN <<>>
  ELSE ContentUpTo(lines, i - 1)
         \o (IF IsContentLine(lines[i]) THEN <<" ">> \o Trim(lines[i]) ELSE <<>>)

SplitAsCursor(lines, sections) ==
  /\ \A name \in SectionNames :
       sections[name] = AppendedUpTo(lines, name, Len(lines))
  /\ (\A i \in DOMAIN lines : ~IsHeadingLine(lines[i]))
       => /\ sections.other = ContentUpTo(lines, Len(lines))
          /\ \A name \in HeadingNames : sections[name] = <<>>
  /\ \A i \in DOMAIN lines :
       (\A j \in 1..i : ~IsHeadingLine(lines[j]))
         => AppendedUpTo(lines, "other", i) = ContentUpTo(lines, i)

\* C15: splitJDSections reads the lines in order with a cursor that starts
\* at other; a heading line switches the cursor and adds no text, every
\* other non-blank line is appended to the section under the cursor, so
\* lines before the first heading go to other and a JD without a heading
\* puts all its text in other
C15_CursorSplit ==
  SectionsSplit => SplitAsCursor(call.lines, call.result)

C15_Witness ==
  /\ SectionsSplit
  /\ call.lines = <<<<"p","y","t","h","o","n"," ","s","q","l">>, <<"R","e","q","u","i","r","e","m","e","n","t","s",":">>, <<" ","d","o","c","k","e","r"," ","a","w","s"," ">>>>
  /\ call.result.other = <<" ","p","y","t","h","o","n"," ","s","q","l">>
  /\ call.result.requirements = <<" ","d","o","c","k","e","r"," ","a","w","s">>
  /\ call.result.responsibilities = <<>>
  /\ call.result.preferred = <<>>

Occurs(piece, text) == \E i \in 1..Len(text) : MatchesAt(text, piece, i)

\* the content line i + 1 of lines follows the heading line i, which
\* matches several patterns, and its text is on no other line
AfterAmbiguousHeading(lines, i) ==
  /\ i + 1 \in DOMAIN lines
  /\ Cardinality(MatchedHeadings(Trim(lines[i]))) > 1
  /\ IsContentLine(lines[i + 1])
  /\ \A k \in DOMAIN lines : k # i + 1 => Trim(lines[k]) # Trim(lines[i + 1])

FirstMatchWins(lines, sections) ==
  \A i \in DOMAIN lines :
    AfterAmbiguousHeading(lines, i)
      => \A name \in SectionNames :
           Occurs(<<" ">> \o Trim(lines[i + 1]), sections[name])
             <=> name = FirstInOrder(MatchedHeadings(Trim(lines[i])))

\* C16: a line that matches more than one heading pattern switches the
\* cursor to the first matching section in the order requirements,
\* responsibilities, preferred, and to no other
C16_FirstMatchWins ==
  SectionsSplit => FirstMatchWins(call.lines, call.result)

C16_Witness ==
  /\ SectionsSplit
  /\ call.lines = <<<<"N","i","c","e"," ","t","o"," ","h","a","v","e">>, <<"R","o","l","e"," ","i","s"," ","a"," ","p","l","u","s">>, <<"p","y","t","h","o","n"," ","s","q","l">>>>
  /\ MatchedHeadings(Trim(call.lines[2])) = {"responsibilities", "preferred"}
  /\ call.result.responsibilities = <<" ","p","y","t","h","o","n"," ","s","q","l">>
  /\ call.result.preferred = <<>>
  /\ call.result.requirements = <<>>
  /\ call.result.other = <<>>

(***************************************************************************)
(* Properties of normalizeRange                                            *)
(***************************************************************************)
RangeNormalized == call.op = "normalizeRange" /\ call.result # None

\* the bounds that were given
GivenBounds(min, max) == {min, max} \ {Null}

\* C19: normalizeRange returns null exactly when both bounds are absent;
\* one bound gives min = max = that bound; two bounds come back ordered,
\* so every returned range has min <= max
C19_RangeOrdered ==
  RangeNormalized =>
    LET given == GivenBounds(call.min, call.max)
        range == call.result
    IN  /\ range = Null <=> (call.min = Null /\ call.max = Null)
        /\ (call.min = Null) # (call.max = Null)
             => \A bound \in given : range = [min |-> bound, max |-> bound]
        /\ (call.min # Null /\ call.max # Null)
             => /\ {range.min, range.max} = given
                /\ \A bound \in given :
                     ~RatLess(bound, range.min) /\ ~RatLess(range.max, bound)
        /\ range # Null => ~RatLess(range.max, range.min)

C19_Witness ==
  /\ RangeNormalized
  /\ call.min = Int2Rat(120000)
  /\ call.max = Int2Rat(80000)
  /\ call.result = [min |-> Int2Rat(80000), max |-> Int2Rat(120000)]

(***************************************************************************)
(* Properties of the no-overlap branch of computeCompensationFit           *)
(***************************************************************************)
\* the candidate range lies entirely above or entirely below the role
\* range; ranges that only share an end point count as apart
RangesApart ==
  \/ ~RatLess(call.candidate.min, call.role.max)
  \/ ~RatLess(call.role.min, call.candidate.max)

\* the distance between the two ranges, 0 when they meet
RangeDistance ==
  RatMax(Int2Rat(0),
         RatMax(RatSub(call.candidate.min, call.role.max),
                RatSub(call.role.min, call.candidate.max)))

\* C18: when overlap = 0 between two present ranges, the candidate range
\* lies entirely above or entirely below the role range, the gap computed
\* is the non-negative distance between the ranges and the score is
\* max(0, round(100 - 100 * gap / span))
C18_NoOverlapGap ==
  (FitScored /\ ClaimedOverlap = Int2Rat(0)) =>
    LET gap == compGap(call.candidate, call.role)
    IN  /\ RangesApart
        /\ ~RatLess(gap, Int2Rat(0))
        /\ gap = RangeDistance
        /\ call.result.score
             = Int2Rat(Max(0, MathRound(RatSub(Int2Rat(100),
                 RatDiv(RatMul(Int2Rat(100), gap), ClaimedSpan)))))

(***************************************************************************)
(* Properties of the whole-JD fallback of computeMatchScore                *)
(***************************************************************************)
\* the whole JD as one block: its distinct tokens, and those the resume has
WholeJDBlock(matched, total, w) ==
  [matched |-> matched, total |-> total,
   ratio |-> IF total = 0 THEN Int2Rat(0) ELSE Rat(matched, total),
   weight |-> w]

\* breakdown carries block in one part and zeros in the other three
CarriesOnly(breakdown, block) ==
  \E name \in SectionNames :
    /\ breakdown[name] = block
    /\ \A other \in SectionNames \ {name} :
         breakdown[other] = WholeJDBlock(0, 0, Int2Rat(0))

\* C17: when no section has total > 0 the whole JD text is scored as one
\* block: score = round(100 * coverage of the JD's token set), the
\* breakdown carries that block with weight 1 and the other three parts
\* have matched = total = ratio = weight = 0
C17_FallbackBlock ==
  (MatchScored /\ ActiveSections = {}) =>
    LET jdTokens == TokenSet(call.jdText)
        total == Cardinality(jdTokens)
        matched == Cardinality(jdTokens \cap TokenSet(call.cvText))
    IN  /\ call.result.score
             = (IF total = 0 THEN 0 ELSE (200 * matched + total) \div (2 * total))
        /\ CarriesOnly(call.result.breakdown,
                       WholeJDBlock(matched, total, Int2Rat(1)))

C17_Witness ==
  /\ MatchScored
  /\ ActiveSections = {}
  /\ call.jdText = <<"S","k","i","l","l","s"," ","p","y","t","h","o","n">>
  /\ call.cvText = <<"p","y","t","h","o","n"," ","s","q","l">>
  /\ call.result.score = 100
  /\ call.result.breakdown.requirements
       = WholeJDBlock(1, 1, Int2Rat(1))
  /\ call.result.breakdown.other.weight = Int2Rat(0)

(***************************************************************************)
(* Order of the LLM call within a request                                  *)
(***************************************************************************)
HasResponse(r) == req[r].response # None

\* what holds of request r in every state
LLMCallDiscipline(r) ==
  /\ req[r].llmCalls <= 1
  /\ req[r].llmCalls = 1 => (req[r].cvText # <<>> /\ req[r].jdText # <<>>)
  /\ (HasResponse(r) /\ req[r].response.status = 400) => req[r].llmCalls = 0
  /\ req[r].pc = "awaitLLM" => (req[r].llmCalls = 1 /\ ~HasResponse(r))
  /\ (HasResponse(r) /\ req[r].llmCalls = 1) => req[r].reply # None

\* what holds of every step of request r: the call is made once, by the
\* step that found both texts non-empty, and after it a success response
\* appears only in the step that writes matchScore and scoreBreakdown over
\* the analysis made from the reply
LLMCallStep(r) ==
  /\ req'[r].llmCalls # req[r].llmCalls
       => /\ req[r].pc = "validate"
          /\ req[r].llmCalls = 0
          /\ req'[r].llmCalls = 1
          /\ req[r].cvText # <<>>
          /\ req[r].jdText # <<>>
          /\ req'[r].pc = "awaitLLM"
  /\ (req[r].llmCalls = 1 /\ ~HasResponse(r) /\ req'[r].response # None
        /\ req'[r].response.status = 200)
       => /\ req[r].pc = "merge"
          /\ req[r].reply # None
          /\ req[r].reply.ok
          /\ req[r].analysis = analysisOfReply(req[r].reply)
          /\ LET match == computeMatchScore(req[r].cvText, req[r].jdText)
             IN  /\ req'[r].analysis.fields.matchScore = Int2Rat(match.score)
                 /\ req'[r].analysis.fields.scoreBreakdown
                      = Breakdown(match.breakdown)
                 /\ req'[r].response.meta.scoreBreakdown
                      = Breakdown(match.breakdown)

\* C20: within one request the LLM is invoked at most once and only after
\* both texts were found non-empty, a request rejected with 400 never
\* invokes it, and no response is produced between the call and the
\* overwrite of matchScore and scoreBreakdown
C20_LLMOnceAndAwaited ==
  /\ [](\A r \in Reqs : LLMCallDiscipline(r))
  /\ [][\A r \in Reqs : LLMCallStep(r)]_vars

C20_Witness ==
  /\ req[1].pc = "done"
  /\ req[1].llmCalls = 1
  /\ req[1].reply # None
  /\ req[1].reply.ok
  /\ req[1].response.status = 200
  /\ req[1].analysis.fields.matchScore
       = Int2Rat(computeMatchScore(req[1].cvText, req[1].jdText).score)

(***************************************************************************)
(* The tokenizer and the functions built on it, on their own               *)
(***************************************************************************)
MaxWords == 3

\* the words a text of these calls is made of, each with the tokens that
\* tokenize keeps of it
TokenWords ==
  {[text |-> <<"P","y","t","h","o","n">>, tokens |-> <<<<"p","y","t","h","o","n">>>>],
   [text |-> <<"S","Q","L",",">>, tokens |-> <<<<"s","q","l">>>>],
   [text |-> <<"C","+","+">>, tokens |-> <<<<"c","p","l","u","s","p","l","u","s">>>>],
   [text |-> <<"C","#">>, tokens |-> <<<<"c","s","h","a","r","p">>>>],
   [text |-> <<".","N","E","T">>, tokens |-> <<<<"d","o","t","n","e","t">>>>],
   [text |-> <<"N","o","d","e",".","j","s">>, tokens |-> <<<<"n","o","d","e","j","s">>>>],
   [text |-> <<"R","e","a","c","t",".","j","s">>, tokens |-> <<<<"r","e","a","c","t">>>>],
   [text |-> <<"T","h","e">>, tokens |-> <<>>],
   [text |-> <<"g","o">>, tokens |-> <<>>],
   [text |-> <<"f","r","o","n","t","-","e","n","d">>, tokens |-> <<<<"f","r","o","n","t">>, <<"e","n","d">>>>]}

\* the words of the section texts handed to coverageScore
SectionWords ==
  {w \in TokenWords :
     w.text \in { <<"P","y","t","h","o","n">>, <<"S","Q","L",",">>, <<"C","+","+">>, <<"T","h","e">>, <<"f","r","o","n","t","-","e","n","d">> }}

\* the resume token sets handed to coverageScore
ResumeTokenSets ==
  { {}, { <<"p","y","t","h","o","n">> }, { <<"p","y","t","h","o","n">>, <<"c","p","l","u","s","p","l","u","s">>, <<"f","r","o","n","t">>, <<"j","a","v","a">> } }

\* the JDs and resume words of the calls that score one JD against a
\* resume and against the same resume with a word added
PairJDs ==
  {<<>>,
   <<"P","y","t","h","o","n"," ","S","Q","L",","," ","C","+","+">>,
   <<"S","k","i","l","l","s"," ","P","y","t","h","o","n">>,
   <<"R","e","q","u","i","r","e","m","e","n","t","s",":","\n","P","y","t","h","o","n"," ","S","Q","L",","," ","C","+","+","\n","N","i","c","e"," ","t","o"," ","h","a","v","e","\n","f","r","o","n","t","-","e","n","d"," ","g","o","\n","W","h","a","t"," ","y","o","u","'","l","l"," ","d","o","\n","R","e","a","c","t",".","j","s">>}

PairWords == {w \in TokenWords : w.text \in { <<"P","y","t","h","o","n">>, <<"C","+","+">>, <<"f","r","o","n","t","-","e","n","d">> }}

TextOfWords(words) ==
  Join([i \in DOMAIN words |-> words[i].text], <<" ">>)

InitTokens ==
  /\ page = InitialPage
  /\ env = DefaultEnv
  /\ req = [r \in Reqs |-> IdleRequest]
  /\ \/ call \in {[op |-> "tokenize", words |-> words,
                   text |-> TextOfWords(words), result |-> None] :
                    words \in SeqsUpTo(TokenWords, MaxWords)}
     \/ call \in {[op |-> "computeMatchScore", jdText |-> jdText,
                   cvText |-> TextOfWords(words),
                   cvLonger |-> TextOfWords(Append(words, added)),
                   result |-> None] :
                    jdText \in PairJDs, words \in SeqsUpTo(PairWords, MaxWords),
                    added \in SectionWords}
     \/ call \in {[op |-> "coverageScore", words |-> words,
                   sectionText |-> TextOfWords(words), cvTokens |-> cvTokens,
                   result |-> None] :
                    words \in SeqsUpTo(SectionWords, MaxWords),
                    cvTokens \in ResumeTokenSets}

\* tokenize(text), and tokenize of its own output joined by spaces
ApplyTokenize ==
  /\ call.op = "tokenize"
  /\ call.result = None
  /\ call' = [call EXCEPT !.result =
                [tokens |-> tokenize(call.text),
                 again |-> tokenize(Join(tokenize(call.text), <<" ">>))]]
  /\ UNCHANGED <<env, req, page>>

ApplyCoverageScore ==
  /\ call.op = "coverageScore"
  /\ call.result = None
  /\ call' = [call EXCEPT !.result = coverageScore(call.sectionText, call.cvTokens)]
  /\ UNCHANGED <<env, req, page>>

\* computeMatchScore for the resume and for the longer resume
ApplyComputeMatchScoreTwice ==
  /\ call.op = "computeMatchScore"
  /\ call.result = None
  /\ call' = [call EXCEPT !.result =
                [shorter |-> computeMatchScore(call.cvText, call.jdText),
                 longer |-> computeMatchScore(call.cvLonger, call.jdText)]]
  /\ UNCHANGED <<env, req, page>>

NextTokens ==
  \/ ApplyTokenize
  \/ ApplyCoverageScore
  \/ ApplyComputeMatchScoreTwice

SpecTokens == InitTokens /\ [][NextTokens]_vars

(***************************************************************************)
(* Properties of coverageScore                                             *)
(***************************************************************************)
CoverageScored == call.op = "coverageScore" /\ call.result # None

\* the distinct significant tokens of the words
TokensOfWords(words) ==
  UNION {Range(words[i].tokens) : i \in DOMAIN words}

\* C21: coverageScore returns total = the number of distinct significant
\* tokens of the section text, matched = the number of them in the resume
\* token set and ratio = matched / total, all 0 when there is no significant
\* token; so 0 <= matched <= total, 0 <= ratio <= 1, and a repeated word
\* changes nothing
C21_CoverageCounts ==
  CoverageScored =>
    LET tokens == TokensOfWords(call.words)
        part == call.result
    IN  /\ part.total = Cardinality(tokens)
        /\ part.matched = Cardinality(tokens \cap call.cvTokens)
        /\ part.ratio = (IF tokens = {} THEN Int2Rat(0)
                         ELSE Rat(part.matched, part.total))
        /\ 0 <= part.matched
        /\ part.matched <= part.total
        /\ ~RatLess(part.ratio, Int2Rat(0))
        /\ ~RatLess(Int2Rat(1), part.ratio)
        /\ tokens = {} => (part.matched = 0 /\ part.total = 0)

C21_Witness ==
  /\ CoverageScored
  /\ call.sectionText = <<"P","y","t","h","o","n"," ","C","+","+"," ","P","y","t","h","o","n">>
  /\ call.cvTokens = { <<"p","y","t","h","o","n">> }
  /\ call.result = [matched |-> 1, total |-> 2, ratio |-> Rat(1, 2)]

(***************************************************************************)
(* Properties of tokenize                                                  *)
(***************************************************************************)
Tokenized == call.op = "tokenize" /\ call.result # None

RECURSIVE Flatten(_)
Flatten(seqs) ==
  IF seqs = <<>> THEN <<>> ELSE Head(seqs) \o Flatten(Tail(seqs))

IsLowerAlnum(token) ==
  \A i \in DOMAIN token : token[i] \in LowerSet \cup DigitSet

\* C22: tokenize returns, in input order and with duplicates kept, only
\* lower-case alphanumeric runs of length >= 3 that are no stop words,
\* after folding C++, C#, .NET, Node.js and React.js; empty input gives an
\* empty sequence, and tokenizing its space-joined output changes nothing
C22_TokenizeOrderedAndStable ==
  Tokenized =>
    LET tokens == call.result.tokens
    IN  /\ tokens = Flatten([i \in DOMAIN call.words |-> call.words[i].tokens])
        /\ \A i \in DOMAIN tokens :
             /\ IsLowerAlnum(tokens[i])
             /\ Len(tokens[i]) >= 3
             /\ tokens[i] \notin STOPWORDS
        /\ call.text = <<>> => tokens = <<>>
        /\ call.result.again = tokens

C22_Witness ==
  /\ Tokenized
  /\ call.text = <<"C","+","+"," ","T","h","e"," ","N","o","d","e",".","j","s">>
  /\ call.result.tokens = <<<<"c","p","l","u","s","p","l","u","s">>, <<"n","o","d","e","j","s">>>>
  /\ call.result.again = call.result.tokens

(***************************************************************************)
(* The JD of a request is one line                                         *)
(***************************************************************************)
\* round(100 * the share of the JD's distinct tokens the resume has)
WholeJDScore(cvText, jdText) ==
  LET jdTokens == TokenSet(jdText)
      total == Cardinality(jdTokens)
      matched == Cardinality(jdTokens \cap TokenSet(cvText))
  IN  IF total = 0 THEN 0 ELSE (200 * matched + total) \div (2 * total)

SingleLineBreakdown(breakdown) ==
  /\ breakdown.responsibilities.total = 0
  /\ breakdown.preferred.total = 0
  /\ Cardinality({name \in SectionNames : breakdown[name].total > 0}) <= 1

\* C23: in every successful response the JD text handed to
\* computeMatchScore has no line break, so responsibilities.total and
\* preferred.total are 0, at most one breakdown part has total > 0, and
\* matchScore equals round(100 * the coverage ratio of the whole JD token
\* set)
C23_SingleLineScore ==
  \A r \in Reqs :
    Succeeded(r) =>
      /\ \A i \in DOMAIN req[r].jdText : req[r].jdText[i] # "\n"
      /\ SingleLineBreakdown(req[r].response.meta.scoreBreakdown.breakdown)
      /\ ResponseField(r, "matchScore")
           = Int2Rat(WholeJDScore(req[r].cvText, req[r].jdText))

(***************************************************************************)
(* Headings inside longer lines                                            *)
(***************************************************************************)
KeywordLineOf(text) == CHOOSE line \in KeywordLines : line.text = text

\* the cursor when line i is read, from the keywords listed with the lines
KeywordCursorAt(lines, i) ==
  LET headings == {j \in 1..(i - 1) : KeywordLineOf(lines[j]).heading # "none"}
  IN  IF headings = {} THEN "other"
      ELSE KeywordLineOf(lines[Greatest(headings)]).heading

RECURSIVE KeywordAppendedUpTo(_, _, _)
KeywordAppendedUpTo(lines, name, i) ==
  IF i = 0 THEN <<>>
  ELSE KeywordAppendedUpTo(lines, name, i - 1)
         \o (IF /\ KeywordLineOf(lines[i]).heading = "none"
                /\ KeywordCursorAt(lines, i) = name
             THEN <<" ">> \o lines[i]
             ELSE <<>>)

KeywordAnywhere(lines, sections) ==
  /\ \A name \in SectionNames :
       sections[name] = KeywordAppendedUpTo(lines, name, Len(lines))
  /\ \A i \in DOMAIN lines :
       KeywordLineOf(lines[i]).heading # "none"
         => \A word \in KeywordLineOf(lines[i]).words : \A name \in SectionNames :
              ~Occurs(word, sections[name])

\* C24: a line is a heading whenever a heading keyword occurs anywhere in
\* it as a whole word, in any letter case, not only when the line is the
\* heading alone; every other word of such a line is left out of all four
\* sections
C24_KeywordAnywhere ==
  (SectionsSplit /\ \A i \in DOMAIN call.lines : call.lines[i] \in KeywordLineTexts)
    => KeywordAnywhere(call.lines, call.result)

C24_Witness ==
  /\ SectionsSplit
  /\ call.lines = <<<<"u","p","s","k","i","l","l","i","n","g"," ","r","o","l","e","s"," ","b","o","n","u","s","e","s">>, <<"S","t","r","o","n","g"," ","P","y","t","h","o","n"," ","S","K","I","L","L","S"," ","n","e","e","d","e","d">>,
                    <<"k","u","b","e","r","n","e","t","e","s"," ","t","e","r","r","a","f","o","r","m">>>>
  /\ call.result.other = <<" ","u","p","s","k","i","l","l","i","n","g"," ","r","o","l","e","s"," ","b","o","n","u","s","e","s">>
  /\ call.result.requirements = <<" ","k","u","b","e","r","n","e","t","e","s"," ","t","e","r","r","a","f","o","r","m">>
  /\ call.result.responsibilities = <<>>
  /\ call.result.preferred = <<>>

(***************************************************************************)
(* A longer resume never scores lower                                      *)
(***************************************************************************)
ScoredTwice ==
  /\ call.op = "computeMatchScore"
  /\ call.result # None
  /\ TokenSet(call.cvText) \subseteq TokenSet(call.cvLonger)

\* C25: for a fixed JD, if the resume token set A is a subset of B then
\* every section's matched count and ratio under B are >= those under A,
\* every section's total is the same, and score(A) <= score(B)
C25_MoreWordsNeverLower ==
  ScoredTwice =>
    LET a == call.result.shorter
        b == call.result.longer
    IN  /\ \A name \in SectionNames :
             /\ a.breakdown[name].matched <= b.breakdown[name].matched
             /\ ~RatLess(b.breakdown[name].ratio, a.breakdown[name].ratio)
             /\ a.breakdown[name].total = b.breakdown[name].total
        /\ a.score <= b.score

C25_Witness ==
  /\ ScoredTwice
  /\ call.cvText = <<"P","y","t","h","o","n">>
  /\ call.cvLonger = <<"P","y","t","h","o","n"," ","C","+","+">>
  /\ TokenSet(call.cvText) # TokenSet(call.cvLonger)
  /\ call.result.shorter.breakdown.requirements.matched = 1
  /\ call.result.longer.breakdown.requirements.matched = 2
  /\ call.result.shorter.breakdown.preferred.total = 2
  /\ call.result.shorter.score < call.result.longer.score

(***************************************************************************)
(* Notes of computeCompensationFit                                         *)
(***************************************************************************)
HasNote(note) == \E i \in DOMAIN call.result.notes : call.result.notes[i] = note

\* C26: with both ranges present exactly one of the overlap and no-overlap
\* notes is emitted; the above-range and below-range notes never come
\* together, and each comes only with the no-overlap note
C26_NotesConsistent ==
  FitScored =>
    /\ HasNote(NoteOverlap) # HasNote(NoteNoOverlap)
    /\ Cardinality({i \in DOMAIN call.result.notes :
                      call.result.notes[i] \in {NoteOverlap, NoteNoOverlap}}) = 1
    /\ ~(HasNote(NoteAbove) /\ HasNote(NoteBelow))
    /\ HasNote(NoteAbove) => (HasNote(NoteNoOverlap) /\ ~HasNote(NoteOverlap))
    /\ HasNote(NoteBelow) => (HasNote(NoteNoOverlap) /\ ~HasNote(NoteOverlap))

C26_Witness ==
  /\ FitScored
  /\ call.candidate = [min |-> Int2Rat(3), max |-> Int2Rat(4)]
  /\ call.role = [min |-> Int2Rat(0), max |-> Int2Rat(2)]
  /\ call.result.notes = <<NoteNoOverlap, NoteAbove>>

(***************************************************************************)
(* extractKeywordStats on its own                                          *)
(***************************************************************************)
\* a JD of 32 distinct keywords, one of them used twice: more than
\* KeywordLimit entries
LongJDWords ==
  <<[text |-> <<"k","w","0","1">>, tokens |-> <<<<"k","w","0","1">>>>],
    [text |-> <<"k","w","0","2">>, tokens |-> <<<<"k","w","0","2">>>>],
    [text |-> <<"k","w","0","3">>, tokens |-> <<<<"k","w","0","3">>>>],
    [text |-> <<"k","w","0","4">>, tokens |-> <<<<"k","w","0","4">>>>],
    [text |-> <<"k","w","0","5">>, tokens |-> <<<<"k","w","0","5">>>>],
    [text |-> <<"k","w","0","5">>, tokens |-> <<<<"k","w","0","5">>>>],
    [text |-> <<"k","w","0","6">>, tokens |-> <<<<"k","w","0","6">>>>],
    [text |-> <<"k","w","0","7">>, tokens |-> <<<<"k","w","0","7">>>>],
    [text |-> <<"k","w","0","8">>, tokens |-> <<<<"k","w","0","8">>>>],
    [text |-> <<"k","w","0","9">>, tokens |-> <<<<"k","w","0","9">>>>],
    [text |-> <<"k","w","1","0">>, tokens |-> <<<<"k","w","1","0">>>>],
    [text |-> <<"k","w","1","1">>, tokens |-> <<<<"k","w","1","1">>>>],
    [text |-> <<"k","w","1","2">>, tokens |-> <<<<"k","w","1","2">>>>],
    [text |-> <<"k","w","1","3">>, tokens |-> <<<<"k","w","1","3">>>>],
    [text |-> <<"k","w","1","4">>, tokens |-> <<<<"k","w","1","4">>>>],
    [text |-> <<"k","w","1","5">>, tokens |-> <<<<"k","w","1","5">>>>],
    [text |-> <<"k","w","1","6">>, tokens |-> <<<<"k","w","1","6">>>>],
    [text |-> <<"k","w","1","7">>, tokens |-> <<<<"k","w","1","7">>>>],
    [text |-> <<"k","w","1","8">>, tokens |-> <<<<"k","w","1","8">>>>],
    [text |-> <<"k","w","1","9">>, tokens |-> <<<<"k","w","1","9">>>>],
    [text |-> <<"k","w","2","0">>, tokens |-> <<<<"k","w","2","0">>>>],
    [text |-> <<"k","w","2","1">>, tokens |-> <<<<"k","w","2","1">>>>],
    [text |-> <<"k","w","2","2">>, tokens |-> <<<<"k","w","2","2">>>>],
    [text |-> <<"k","w","2","3">>, tokens |-> <<<<"k","w","2","3">>>>],
    [text |-> <<"k","w","2","4">>, tokens |-> <<<<"k","w","2","4">>>>],
    [text |-> <<"k","w","2","5">>, tokens |-> <<<<"k","w","2","5">>>>],
    [text |-> <<"k","w","2","6">>, tokens |-> <<<<"k","w","2","6">>>>],
    [text |-> <<"k","w","2","7">>, tokens |-> <<<<"k","w","2","7">>>>],
    [text |-> <<"k","w","2","8">>, tokens |-> <<<<"k","w","2","8">>>>],
    [text |-> <<"k","w","2","9">>, tokens |-> <<<<"k","w","2","9">>>>],
    [text |-> <<"k","w","3","0">>, tokens |-> <<<<"k","w","3","0">>>>],
    [text |-> <<"k","w","3","1">>, tokens |-> <<<<"k","w","3","1">>>>],
    [text |-> <<"k","w","3","2">>, tokens |-> <<<<"k","w","3","2">>>>]>>

\* the JDs of these calls, as sequences of words
KeywordJDs == SeqsUpTo(SectionWords, MaxWords) \cup {LongJDWords}

\* the resumes of these calls, as sequences of words
KeywordCVs ==
  {<<>>, LongJDWords} \cup {<<w>> : w \in SectionWords}
  \cup {<<a, b>> : a \in {w \in SectionWords : w.text = <<"P","y","t","h","o","n">>}, b \in SectionWords}

InitKeywords ==
  /\ page = InitialPage
  /\ env = DefaultEnv
  /\ req = [r \in Reqs |-> IdleRequest]
  /\ call \in {[op |-> "extractKeywordStats", jdWords |-> jdWords,
                 cvWords |-> cvWords, jdText |-> TextOfWords(jdWords),
                 cvText |-> TextOfWords(cvWords), result |-> None] :
                  jdWords \in KeywordJDs, cvWords \in KeywordCVs}

ApplyExtractKeywordStats ==
  /\ call.op = "extractKeywordStats"
  /\ call.result = None
  /\ call' = [call EXCEPT !.result = extractKeywordStats(call.jdText, call.cvText)]
  /\ UNCHANGED <<env, req, page>>

NextKeywords == ApplyExtractKeywordStats

SpecKeywords == InitKeywords /\ [][NextKeywords]_vars

(***************************************************************************)
(* Properties of extractKeywordStats                                       *)
(***************************************************************************)
KeywordsExtracted == call.op = "extractKeywordStats" /\ call.result # None

NoDuplicates(list) ==
  \A i \in DOMAIN list : \A j \in DOMAIN list : list[i] = list[j] => i = j

\* list is in descending frequency in jdTokens, ties in descending length
ByFrequencyThenLength(list, jdTokens) ==
  \A i \in 1..(Len(list) - 1) :
    LET here == Cardinality({k \in DOMAIN jdTokens : jdTokens[k] = list[i]})
        next == Cardinality({k \in DOMAIN jdTokens : jdTokens[k] = list[i + 1]})
    IN  \/ here > next
        \/ here = next /\ Len(list[i]) >= Len(list[i + 1])

KeywordListsSound(stats, jdTokens, cvTokens) ==
  /\ Range(stats.keywordMatches) \cap Range(stats.missingKeywords) = {}
  /\ NoDuplicates(stats.keywordMatches)
  /\ NoDuplicates(stats.missingKeywords)
  /\ Len(stats.keywordMatches) <= 30
  /\ Len(stats.missingKeywords) <= 30
  /\ Range(stats.keywordMatches) \subseteq Range(jdTokens) \cap cvTokens
  /\ Range(stats.missingKeywords) \subseteq Range(jdTokens) \ cvTokens
  /\ ByFrequencyThenLength(stats.keywordMatches, jdTokens)
  /\ ByFrequencyThenLength(stats.missingKeywords, jdTokens)

\* C27: keywordMatches and missingKeywords are disjoint, duplicate-free and
\* at most 30 entries each; every keywordMatches entry is a JD token the
\* resume has and every missingKeywords entry a JD token it lacks; both
\* are in descending frequency in the JD, ties in descending token length
C27_KeywordLists ==
  KeywordsExtracted =>
    KeywordListsSound(call.result,
                      Flatten([i \in DOMAIN call.jdWords |-> call.jdWords[i].tokens]),
                      TokensOfWords(call.cvWords))

C27_Witness ==
  /\ KeywordsExtracted
  /\ call.jdWords = LongJDWords
  /\ call.cvWords = <<>>
  /\ Len(call.result.missingKeywords) = 30
  /\ call.result.missingKeywords[1] = <<"k","w","0","5">>
  /\ call.result.keywordMatches = <<>>

(***************************************************************************)
(* The handler without an API key                                          *)
(***************************************************************************)
\* request r is answered and had both texts
AnsweredWithTexts(r) ==
  Done(r) /\ req[r].cvText # <<>> /\ req[r].jdText # <<>>

HeuristicGaps(gaps, missing) ==
  /\ Len(gaps) = Min(10, Len(missing))
  /\ \A i \in DOMAIN gaps :
       gaps[i] = Str(<<"M","i","s","s","i","n","g"," ","k","e","y","w","o","r","d",":"," ">> \o missing[i])

\* C28: without GROQ_API_KEY the handler makes no network call and answers
\* a request that has both texts with a successful response holding the
\* heuristic analysis: gapAnalysis is 'Missing keyword: w' for at most the
\* first 10 missing keywords in order and bulletRewrites is empty
C28_NoKeyGivesHeuristic ==
  \A r \in Reqs :
    ~HasApiKey(env) =>
      /\ req[r].llmCalls = 0
      /\ req[r].reply = None
      /\ req[r].pc # "awaitLLM"
      /\ AnsweredWithTexts(r) =>
           /\ req[r].response.status = 200
           /\ req[r].response.error = None
           /\ req[r].response.analysis.kind = "object"
           /\ HeuristicGaps(ResponseField(r, "gapAnalysis").arr,
                            ResponseField(r, "missingKeywords").arr)
           /\ ResponseField(r, "bulletRewrites") = Arr(<<>>)
           /\ ResponseField(r, "missingKeywords")
                = Arr(extractKeywordStats(req[r].jdText, req[r].cvText).missingKeywords)

C28_Witness ==
  /\ ~HasApiKey(env)
  /\ AnsweredWithTexts(1)
  /\ req[1].llmCalls = 0
  /\ req[1].response.status = 200
  /\ Len(ResponseField(1, "missingKeywords").arr) = 11
  /\ Len(ResponseField(1, "gapAnalysis").arr) = 10
  /\ ResponseField(1, "gapAnalysis").arr[1] = Str(<<"M","i","s","s","i","n","g"," ","k","e","y","w","o","r","d",":"," ","a","b","c">>)

\* C28 as stated: without GROQ_API_KEY every answered request gets a
\* successful response with the heuristic analysis, never an error response
C28_NoKeyAlwaysSucceeds ==
  \A r \in Reqs :
    (~HasApiKey(env) /\ Done(r)) =>
      /\ req[r].llmCalls = 0
      /\ req[r].response.status = 200
      /\ req[r].response.analysis # None


(***************************************************************************)
(* Pasted text before the uploaded file (POST lines 479-507)               *)
(***************************************************************************)
FileErrors == {ErrTooLarge, ErrUnsupported}

\* the request was not answered with a file error
NoFileError(r) ==
  Done(r) => ~(req[r].response.status >= 400
               /\ req[r].response.error \in FileErrors)

\* the request is past the resolution of its resume text
CvResolved(r) ==
  req[r].pc \notin {"idle", "new", "resolveCv"} /\ NoFileError(r)

\* the request is past the resolution of its JD text
JdResolved(r) ==
  req[r].pc \notin {"idle", "new", "resolveCv", "resolveJd"} /\ NoFileError(r)

Blank(text) == Trim(text) = <<>>

\* what the side's file gives when it is the one read: nothing without a
\* file, the clamped extraction of a readable one
FromFile(file) ==
  IF file = Null THEN <<>> ELSE clampText(file.text)

\* the resolved text of one side is the clamped pasted text when that is
\* non-blank, whatever the file; else it is what the file gives
SideFromTextFirst(resolved, textInput, file) ==
  IF ~Blank(textInput) THEN resolved = clampText(textInput)
  ELSE /\ file # Null => ~Oversized(file) /\ ~Unsupported(file)
       /\ resolved = FromFile(file)

\* C29: for the resume and for the JD independently, a non-blank pasted text
\* is the text used and the file beside it is not read, so an oversized or
\* unsupported file beside pasted text causes no error; a file is extracted
\* only when the pasted text of its side is blank, and every file error in a
\* response comes from such a side
C29_TextBeforeFile ==
  \A r \in Reqs :
    /\ CvResolved(r) =>
         SideFromTextFirst(req[r].cvText, FieldOr(req[r].form, "cvText"),
                           req[r].form.cvFile)
    /\ JdResolved(r) =>
         SideFromTextFirst(req[r].jdText, FieldOr(req[r].form, "jdText"),
                           req[r].form.jdFile)
    /\ (Done(r) /\ req[r].response.status >= 400
          /\ req[r].response.error \in FileErrors) => ExtractionFails(r)

\* an oversized resume file and an unsupported JD file, each beside pasted
\* text, and the request is answered with an analysis of the pasted texts
C29_Witness ==
  \E r \in Reqs :
    /\ Done(r)
    /\ req[r].form.cvFile = BigFile
    /\ req[r].form.jdFile = ExeFile
    /\ ~Blank(FieldOr(req[r].form, "cvText"))
    /\ ~Blank(FieldOr(req[r].form, "jdText"))
    /\ req[r].response.status = 200
    /\ req[r].cvText = <<"P","y","t","h","o","n",","," ","S","Q","L">>

(***************************************************************************)
(* The home page (page.tsx): the inputs, the Analyze button and the three  *)
(* segments of handleAnalyze, which awaits fetch and then response.json(). *)
(* React renders between the segments, never inside one.                   *)
(***************************************************************************)
InputModes == {"file", "text"}

PageCvFiles == {Null, TxtFile}

PageJdFiles == {Null, PdfFile}

PageCvTexts == {<<>>, <<" ">>, <<"P","y","t","h","o","n",","," ","S","Q","L">>}

PageJdTexts == {<<>>, <<"p","y","t","h","o","n"," ","s","q","l"," ","a","w","s">>}

PageSalaries == {<<>>, <<"9","0","0","0","0">>}

SalaryFields == {"cvSalaryMin", "cvSalaryMax", "jdSalaryMin", "jdSalaryMax"}

\* a thrown Error
Error(message) == [thrown |-> "Error", message |-> Str(message)]

\* what fetch rejects with when the network fails
FetchErrors == {Error(<<"F","a","i","l","e","d"," ","t","o"," ","f","e","t","c","h">>)}

\* what response.json() rejects with when the body is not JSON
JsonSyntaxError == Error(<<"U","n","e","x","p","e","c","t","e","d"," ","t","o","k","e","n"," ","<"," ","i","n"," ","J","S","O","N"," ","a","t"," ","p","o","s","i","t","i","o","n"," ","0">>)

\* what reading data.analysis of null throws
NullDataError == Error(<<"C","a","n","n","o","t"," ","r","e","a","d"," ","p","r","o","p","e","r","t","i","e","s"," ","o","f"," ","n","u","l","l"," ","(","r","e","a","d","i","n","g"," ","'","a","n","a","l","y","s","i","s","'",")">>)

Data(analysis, meta, error) ==
  [analysis |-> analysis, meta |-> meta, error |-> error]

\* the answers of /api/analyze (an analysis object or the serialised array
\* of an array reply, the 400 and a 500 of the handler) and a gateway's
\* answer whose body is not JSON (json = None)
Responses ==
  {[ok |-> TRUE, status |-> 200,
    json |-> Data(Object(NoFields), [cvChars |-> 11, jdChars |-> 14], Undefined)],
   [ok |-> TRUE, status |-> 200,
    json |-> Data(Arr(<<Str(<<"p","y","t","h","o","n">>)>>), [cvChars |-> 11, jdChars |-> 14], Undefined)],
   [ok |-> FALSE, status |-> 400,
    json |-> Data(Undefined, Undefined,
                  Str(<<"P","l","e","a","s","e"," ","p","r","o","v","i","d","e"," ","b","o","t","h"," ","a"," ","r","e","s","u","m","e"," ","a","n","d"," ","a"," ","J","o","b"," ","D","e","s","c","r","i","p","t","i","o","n",".">>))],
   [ok |-> FALSE, status |-> 500,
    json |-> Data(Undefined, Undefined, Str(<<"F","i","l","e"," ","t","o","o"," ","l","a","r","g","e","."," ","M","a","x"," ","6","M","B",".">>))],
   [ok |-> FALSE, status |-> 500, json |-> Data(Undefined, Undefined, Str(<<>>))],
   [ok |-> FALSE, status |-> 502, json |-> None]}

\* lines 140-155: the message of the first check that fails, None if none
validationError(p) ==
  IF p.cvMode = "file" /\ p.cvFile = Null
  THEN Str(<<"P","l","e","a","s","e"," ","u","p","l","o","a","d"," ","a"," ","r","e","s","u","m","e"," ","f","i","l","e",".">>)
  ELSE IF p.cvMode = "text" /\ Trim(p.cvText) = <<>>
  THEN Str(<<"P","l","e","a","s","e"," ","p","a","s","t","e"," ","y","o","u","r"," ","r","e","s","u","m","e"," ","t","e","x","t",".">>)
  ELSE IF p.jdMode = "file" /\ p.jdFile = Null
  THEN Str(<<"P","l","e","a","s","e"," ","u","p","l","o","a","d"," ","a"," ","J","D"," ","f","i","l","e",".">>)
  ELSE IF p.jdMode = "text" /\ Trim(p.jdText) = <<>>
  THEN Str(<<"P","l","e","a","s","e"," ","p","a","s","t","e"," ","t","h","e"," ","J","D"," ","t","e","x","t",".">>)
  ELSE None

\* a salary field is appended when its string is not empty
SalaryEntry(text) == IF text # <<>> THEN Str(text) ELSE Undefined

\* lines 157-165: the form sent, Undefined for a field not appended
formData(p) ==
  [cvFile |-> IF p.cvMode = "file" /\ p.cvFile # Null THEN p.cvFile ELSE Undefined,
   cvText |-> IF p.cvMode = "text" THEN Str(p.cvText) ELSE Undefined,
   jdFile |-> IF p.jdMode = "file" /\ p.jdFile # Null THEN p.jdFile ELSE Undefined,
   jdText |-> IF p.jdMode = "text" THEN Str(p.jdText) ELSE Undefined,
   cvSalaryMin |-> SalaryEntry(p.cvSalaryMin),
   cvSalaryMax |-> SalaryEntry(p.cvSalaryMax),
   jdSalaryMin |-> SalaryEntry(p.jdSalaryMin),
   jdSalaryMax |-> SalaryEntry(p.jdSalaryMax)]

\* handleAnalyze that leaves the last analysis on the page
handleAnalyze_KeepsAnalysis(p) ==
  LET cleared == [p EXCEPT !.error = Null]
  IN  IF validationError(p) # None
      THEN [cleared EXCEPT !.error = validationError(p)]
      ELSE [cleared EXCEPT !.loading = TRUE, !.run = "fetching",
                           !.fetch = formData(p)]

\* handleAnalyze up to its first await, lines 136-169
handleAnalyze(p) ==
  LET cleared == [p EXCEPT !.error = Null, !.analysis = Null, !.meta = Null]
  IN  IF validationError(p) # None
      THEN [cleared EXCEPT !.error = validationError(p)]
      ELSE [cleared EXCEPT !.loading = TRUE, !.run = "fetching",
                           !.fetch = formData(p)]

\* the finally block, line 184, and the end of the run
finished(p) == [p EXCEPT !.loading = FALSE, !.run = "idle", !.fetch = None]

\* the catch block, lines 181-182
caught(p, err) ==
  finished([p EXCEPT !.error = IF DOMAIN err = {"thrown", "message"}
                               THEN err.message
                               ELSE Str(<<"U","n","e","x","p","e","c","t","e","d"," ","e","r","r","o","r">>)])

\* lines 174-179, after response.json() has given data
settled(p, ok, data) ==
  IF ~ok
  THEN LET message == IF data = Null THEN Undefined ELSE data.error
       IN  finished([p EXCEPT !.error = IF Truthy(message) THEN message
                                        ELSE Str(<<"A","n","a","l","y","s","i","s"," ","f","a","i","l","e","d",".">>)])
  ELSE IF data = Null THEN caught(p, NullDataError)
  ELSE finished([p EXCEPT !.analysis = data.analysis, !.meta = data.meta])

setCvMode ==
  /\ \E mode \in InputModes : page' = [page EXCEPT !.cvMode = mode]
  /\ UNCHANGED <<env, req, call>>

setJdMode ==
  /\ \E mode \in InputModes : page' = [page EXCEPT !.jdMode = mode]
  /\ UNCHANGED <<env, req, call>>

setCvFile ==
  /\ \E file \in PageCvFiles : page' = [page EXCEPT !.cvFile = file]
  /\ UNCHANGED <<env, req, call>>

setJdFile ==
  /\ \E file \in PageJdFiles : page' = [page EXCEPT !.jdFile = file]
  /\ UNCHANGED <<env, req, call>>

setCvText ==
  /\ \E text \in PageCvTexts : page' = [page EXCEPT !.cvText = text]
  /\ UNCHANGED <<env, req, call>>

setJdText ==
  /\ \E text \in PageJdTexts : page' = [page EXCEPT !.jdText = text]
  /\ UNCHANGED <<env, req, call>>

\* setCvSalaryMin, setCvSalaryMax, setJdSalaryMin, setJdSalaryMax
setSalary ==
  /\ \E field \in SalaryFields, text \in PageSalaries :
       page' = [page EXCEPT ![field] = text]
  /\ UNCHANGED <<env, req, call>>

\* a click on the Analyze button, which is disabled while loading (line 543)
ClickAnalyze ==
  /\ ~page.loading
  /\ page' = handleAnalyze(page)
  /\ UNCHANGED <<env, req, call>>

FetchResolves ==
  /\ page.run = "fetching"
  /\ \E response \in Responses :
       page' = [page EXCEPT !.run = "parsing", !.fetch = response]
  /\ UNCHANGED <<env, req, call>>

FetchRejects ==
  /\ page.run = "fetching"
  /\ \E err \in FetchErrors : page' = caught(page, err)
  /\ UNCHANGED <<env, req, call>>

JsonResolves ==
  /\ page.run = "parsing"
  /\ page.fetch.json # None
  /\ page' = settled(page, page.fetch.ok, page.fetch.json)
  /\ UNCHANGED <<env, req, call>>

JsonRejects ==
  /\ page.run = "parsing"
  /\ page.fetch.json = None
  /\ page' = caught(page, JsonSyntaxError)
  /\ UNCHANGED <<env, req, call>>

InitHome ==
  /\ page = InitialPage
  /\ env = DefaultEnv
  /\ req = [r \in Reqs |-> IdleRequest]
  /\ call = NoCall

NextHome ==
  \/ setCvMode
  \/ setJdMode
  \/ setCvFile
  \/ setJdFile
  \/ setCvText
  \/ setJdText
  \/ setSalary
  \/ ClickAnalyze
  \/ FetchResolves
  \/ FetchRejects
  \/ JsonResolves
  \/ JsonRejects

SpecHome == InitHome /\ [][NextHome]_vars

(***************************************************************************)
(* Properties of the home page                                             *)
(***************************************************************************)
NonNull(v) == v \notin {Null, Undefined}

\* each side has what its mode asks for: a file, or text that is not blank
InputsValid(p) ==
  /\ p.cvMode = "file" => p.cvFile # Null
  /\ p.cvMode = "text" => Trim(p.cvText) # <<>>
  /\ p.jdMode = "file" => p.jdFile # Null
  /\ p.jdMode = "text" => Trim(p.jdText) # <<>>

RunInFlight(p) == p.run # "idle"

\* between runs loading is false and analysis and error are not both set
PageSettled ==
  /\ ~RunInFlight(page) => ~page.loading
  /\ ~page.loading => ~(NonNull(page.analysis) /\ NonNull(page.error))

\* no step with invalid inputs sends a request or sets loading; a request is
\* sent only by a click accepted while loading is false; the step that ends
\* a run leaves loading false; analysis is set only by the step that takes
\* an OK response
PageStep ==
  /\ (~RunInFlight(page) /\ ~InputsValid(page)) =>
       /\ ~RunInFlight(page')
       /\ ~page'.loading
       /\ page'.fetch = None
  /\ (~RunInFlight(page) /\ RunInFlight(page')) =>
       /\ ~page.loading
       /\ InputsValid(page)
       /\ page'.loading
  /\ (RunInFlight(page) /\ ~RunInFlight(page')) => ~page'.loading
  /\ (NonNull(page'.analysis) /\ page'.analysis # page.analysis) =>
       /\ page.run = "parsing"
       /\ page.fetch.ok

\* C30: on the home page, clicks being accepted only while loading is false,
\* a run that fails validation sends no request and never sets loading, every
\* run that sends a request ends with loading = false whatever the outcome
\* (OK response, HTTP error, thrown exception), and whenever loading is false
\* analysis and error are not both non-null, analysis being non-null only
\* after an OK response
C30_LoadingAndResults == []PageSettled /\ [][PageStep]_vars

\* a run has ended with an OK response: the analysis is on the page, loading
\* is false and there is no error
C30_Witness ==
  /\ ~RunInFlight(page)
  /\ ~page.loading
  /\ NonNull(page.analysis)
  /\ page.error = Null
  /\ InputsValid(page)
=============================================================================
